---- MODULE Spec2Model ----
(***************************************************************************)
(* Model of the azuread provider's resource handlers for applications and  *)
(* their sub-resources (app roles, OAuth2 permission scopes, certificate   *)
(* credentials), and of the read handlers of groups and users, run as      *)
(* concurrent operations of one provider process against the remote        *)
(* directory.  One action is one remote call of a handler together with    *)
(* the local code up to the handler's next remote call (or its return,     *)
(* deferred calls included).                                               *)
(***************************************************************************)
EXTENDS Integers, Sequences, FiniteSets, TLC

\* ------------------------------------------------------------------ bounds
NumProcs == 2                    \* concurrent operations of one provider process

Procs == 1 .. NumProcs
NoProc == 0                      \* holder of a free mutex
Apps == {"a1", "a2"}             \* application object IDs
Groups == {"g1", "g2"}           \* group object IDs
Users == {"u1", "u2"}            \* user object IDs
Objects == Apps \cup Groups \cup Users
SubIds == {"x", "y"}             \* role / scope / key IDs
NilId == "nil"                   \* a key credential whose KeyId is nil

\* d.Id(): the object ID and, for a sub-resource, the ID of its entry
ResourceId(obj, sub) == [obj |-> obj, sub |-> sub]
NoId == ResourceId("", "")       \* d.SetId(""): the resource is not in state

RoleOps == {"RoleCreate", "RoleUpdate", "RoleRead", "RoleDelete"}
ScopeOps == {"ScopeCreate", "ScopeUpdate", "ScopeRead", "ScopeDelete"}
CertOps == {"CertCreate", "CertRead", "CertDelete"}
ReadOps == {"RoleRead", "ScopeRead", "CertRead", "AppRead", "GroupRead", "UserRead"}

\* ------------------------------------------------------------------- state
VARIABLES
    remote,     \* the directory: per object, whether it exists and its collections
    locks,      \* the named mutex registries: per provider and key, the holder or NoProc
    req,        \* per operation: the handler and its configuration (d.Get)
    pc,         \* per operation: the handler's position
    rid,        \* per operation: the local resource ID, d.Id()
    work,       \* per operation: the collection of the fetched `app` being mutated
    result,     \* per operation: the diagnostics the handler returned
    calls       \* per operation: the remote calls issued so far and their responses

vars == <<remote, locks, req, pc, rid, work, result, calls>>

Obj(p) == req[p].obj
Sub(p) == req[p].sub
Kind(p) == req[p].kind

\* d.IsNewResource(): the handler runs as CreateContext
IsNewResource(p) == Kind(p) \in {"RoleCreate", "ScopeCreate", "CertCreate"}

\* --------------------------------------------------------- collections
Entry(id, enabled) == [id |-> id, enabled |-> enabled, value |-> ""]

\* an entry that carries a value (AppRole.Value / PermissionScope.Value)
ValuedEntry(id, enabled, value) == [id |-> id, enabled |-> enabled, value |-> value]

\* the msgraph.AppRole / msgraph.PermissionScope a sub-resource handler
\* builds from its configuration
Configured(p) == ValuedEntry(Sub(p), req[p].enabled, req[p].value)

Ids(coll) == {coll[i].id : i \in 1 .. Len(coll)}

\* helpers.AppRoleFindById / helpers.OAuth2PermissionFindById: linear scan by ID
FindById(coll, id) == \E i \in 1 .. Len(coll) : coll[i].id = id

\* the entry the scan returns: the first of that ID
EntryById(coll, id) ==
    coll[CHOOSE i \in 1 .. Len(coll) :
            /\ coll[i].id = id
            /\ \A j \in 1 .. i - 1 : coll[j].id # id]

\* msgraph AppendAppRole / AppendOAuth2PermissionScope: the new entry goes first
AppendEntry(coll, e) == <<e>> \o coll

\* msgraph UpdateAppRole / UpdateOAuth2PermissionScope: the first entry of that ID is replaced
UpdateEntry(coll, e) ==
    IF FindById(coll, e.id)
    THEN [coll EXCEPT ![CHOOSE i \in 1 .. Len(coll) :
                          /\ coll[i].id = e.id
                          /\ \A j \in 1 .. i - 1 : coll[j].id # e.id] = e]
    ELSE coll

\* msgraph RemoveAppRole / RemoveOAuth2PermissionScope: every entry of that ID is dropped
RemoveEntry(coll, e) == SelectSeq(coll, LAMBDA c : c.id # e.id)

\* ------------------------------------------------------------ named locks
\* The registry of named mutexes is a package variable of the provider: the
\* operations of one provider process share one, two provider processes
\* (two runs of the tool) have one each.
Providers == {"tf1", "tf2"}

\* the provider process that runs the operation
Provider(p) == req[p].provider

\* every mutex of every registry is free
FreeLocks == [t \in Providers |-> [a \in Apps |-> NoProc]]

\* the holder of the mutex of the key in the registry p sees
Holder(p, key) == locks[Provider(p)][key]

\* tf.LockByName: blocks until the mutex of the key is free, then holds it
LockByName(key, p) ==
    /\ Holder(p, key) = NoProc
    /\ locks' = [locks EXCEPT ![Provider(p)][key] = p]

\* tf.UnlockByName: frees the mutex of the key
UnlockByName(key, p) == locks' = [locks EXCEPT ![Provider(p)][key] = NoProc]

\* ------------------------------------------------------------ remote calls
\* A call and its response: Get with the collection the handler reads from the
\* object returned, Update with the collection its properties carry ("" when
\* they carry none).
GetCall(obj, out, coll, entries) ==
    [op |-> "Get", obj |-> obj, out |-> out, coll |-> coll, entries |-> entries]
ListCall(op, obj, out) ==
    [op |-> op, obj |-> obj, out |-> out, coll |-> "", entries |-> <<>>]
UpdateCall(obj, out, coll, entries) ==
    [op |-> "Update", obj |-> obj, out |-> out, coll |-> coll, entries |-> entries]

Issue(p, c) == calls' = [calls EXCEPT ![p] = Append(@, c)]

\* the outcomes of client.Get: 404 when the object is absent, else the object
\* or a transport / API failure
GetOutcomes(obj) == IF remote[obj].exists THEN {"ok", "error"} ELSE {"notfound"}

\* the outcomes of client.ListOwners / client.ListMembers
ListOutcomes(obj) == {"ok", "error"}

\* the outcomes of client.Update
UpdateOutcomes(obj) == IF remote[obj].exists THEN {"ok", "error"} ELSE {"error"}

\* a write that replaces the whole application: the collections it does not
\* carry are emptied
Patched_Whole(obj, coll, entries) ==
    [remote EXCEPT ![obj] =
        [[exists |-> @.exists, roles |-> <<>>, scopes |-> <<>>, keys |-> <<>>]
            EXCEPT ![coll] = entries]]

\* a write that keeps the entries the application holds and the written
\* collection lacks
Patched_Merged(obj, coll, entries) ==
    [remote EXCEPT ![obj][coll] =
        entries \o SelectSeq(@, LAMBDA e : e.id \notin Ids(entries))]

\* the directory after a successful PATCH carrying one collection
Patched(obj, coll, entries) == [remote EXCEPT ![obj][coll] = entries]

\* ------------------------------------------------------------ diagnostics
\* what a handler returned: nil, or an error and the IDs its message names
Diag(kind, obj, sub) == [kind |-> kind, obj |-> obj, sub |-> sub]
Pending == Diag("pending", "", "")
Ok == Diag("ok", "", "")

\* a handler returns d: its position is "done" and its diagnostics are d
Return(p, d) ==
    /\ pc' = [pc EXCEPT ![p] = "done"]
    /\ result' = [result EXCEPT ![p] = d]

Goto(p, l) ==
    /\ pc' = [pc EXCEPT ![p] = l]
    /\ UNCHANGED result

SetId(p, id) == rid' = [rid EXCEPT ![p] = id]

\* ------------------------------------------------- relationships and probes
RetryBudget == 3                 \* probes the replication waiter makes at most
MaxPasses == 2                   \* times an update is applied to one group

Principals == {"A", "B", "C", "D"}     \* object IDs of members and owners

\* an application in the directory, with its collections
Object(exists, roles, scopes, keys) ==
    [exists |-> exists, roles |-> roles, scopes |-> scopes, keys |-> keys]

\* a group or a user in the directory, with the group's relationship sets
Related(exists, members, owners) ==
    [exists |-> exists, members |-> members, owners |-> owners]

\* utils.Difference(a, b): the elements of a that are not in b (nil when
\* there is none)
Difference(a, b) == a \ b

\* a relationship call and its response: ListMembers / ListOwners with the
\* IDs returned, Add... / Remove... with the IDs sent
RelCall(op, obj, out, coll, ids) ==
    [op |-> op, obj |-> obj, out |-> out, coll |-> coll, entries |-> ids]

\* client.Create and its response
CreateCall(obj, out) ==
    [op |-> "Create", obj |-> obj, out |-> out, coll |-> "", entries |-> <<>>]

\* the List behind helpers.GroupCheckNameAvailability / ApplicationFindByName
NameCall(obj, out) ==
    [op |-> "List", obj |-> obj, out |-> out, coll |-> "", entries |-> <<>>]

\* the client.Get the replication waiter is given as its probe
ProbeCall(obj, out) ==
    [op |-> "Get", obj |-> obj, out |-> out, coll |-> "replication", entries |-> <<>>]

\* the handler is applied again: the calls after this mark are those of the
\* next pass
PassMark(obj) ==
    [op |-> "Pass", obj |-> obj, out |-> "ok", coll |-> "", entries |-> <<>>]

\* the calls of the pass the handler is in
ThisPass(p) ==
    LET marks == {i \in 1 .. Len(calls[p]) : calls[p][i].op = "Pass"}
        from == IF marks = {} THEN 1 ELSE (CHOOSE i \in marks : \A j \in marks : j <= i) + 1
    IN  SubSeq(calls[p], from, Len(calls[p]))

\* the probes the replication waiter of p has made
Probes(p) == SelectSeq(calls[p], LAMBDA c : c.op = "Get" /\ c.coll = "replication")

\* the outcomes of client.Create
CreateOutcomes(obj) == {"ok", "error"}

\* the outcomes of the duplicate-name check: no object of that name, one (an
\* other object), or a failure of the List
NameOutcomes(obj) == {"ok", "duplicate", "error"}

\* the outcomes of a probe: a new object is served once it has replicated,
\* until then the directory answers 404
ProbeOutcomes(obj) ==
    IF remote[obj].exists THEN {"ok", "notfound", "error"} ELSE {"notfound"}

\* the outcomes of Add... / Remove...
RelOutcomes(obj) == IF remote[obj].exists THEN {"ok", "error"} ELSE {"error"}

\* helpers.WaitForCreationReplication after one more probe answered out:
\* the waiter returns the object, returns an error, gives up, or polls again
WaitForCreationReplication(p, out) ==
    IF out = "ok" THEN "found"
    ELSE IF out = "error" THEN "error"
    ELSE IF Len(Probes(p)) + 1 >= RetryBudget THEN "exhausted"
    ELSE "again"

\* ------------------------------------------------- the app role resource
\* the app role create / update entered without taking the named lock
applicationAppRoleResourceCreateUpdate_Lock_NotTaken(p) ==
    /\ pc[p] = "start"
    /\ Goto(p, "get")
    /\ UNCHANGED <<remote, locks, req, rid, work, calls>>

\* CreateUpdate: LockByName + defer UnlockByName
applicationAppRoleResourceCreateUpdate_Lock(p) ==
    /\ pc[p] = "start"
    /\ LockByName(Obj(p), p)
    /\ Goto(p, "get")
    /\ UNCHANGED <<remote, req, rid, work, calls>>

\* an app role handler that returns without its deferred UnlockByName
applicationAppRoleResource_ReturnUnlock_Kept(p, d) ==
    /\ Return(p, d)
    /\ UNCHANGED locks

\* the deferred UnlockByName of a handler that returns d
applicationAppRoleResource_ReturnUnlock(p, d) ==
    /\ Return(p, d)
    /\ UnlockByName(Obj(p), p)

\* CreateUpdate: client.Get failed
applicationAppRoleResourceCreateUpdate_GetFailed(p, out) ==
    /\ IF out = "notfound"
       THEN applicationAppRoleResource_ReturnUnlock(p, Diag("ParentNotFound", Obj(p), ""))
       ELSE applicationAppRoleResource_ReturnUnlock(p, Diag("RetrieveError", Obj(p), ""))
    /\ UNCHANGED <<work, rid>>

\* an app role create that appends without looking for the ID
applicationAppRoleResourceCreateUpdate_Append_Always(p, coll) ==
    /\ work' = [work EXCEPT ![p] = AppendEntry(coll, Configured(p))]
    /\ Goto(p, "update")
    /\ UNCHANGED <<locks, rid>>

\* CreateUpdate, a new resource: msgraph AppendAppRole, which fails when the ID exists
applicationAppRoleResourceCreateUpdate_Append(p, coll) ==
    IF FindById(coll, Sub(p))
    THEN /\ applicationAppRoleResource_ReturnUnlock(p, Diag("AlreadyExists", Obj(p), Sub(p)))
         /\ UNCHANGED <<work, rid>>
    ELSE /\ work' = [work EXCEPT ![p] = AppendEntry(coll, Configured(p))]
         /\ Goto(p, "update")
         /\ UNCHANGED <<locks, rid>>

\* an app role update that treats a missing entry as already gone
applicationAppRoleResourceCreateUpdate_Replace_Gone(p, coll) ==
    IF ~FindById(coll, Sub(p))
    THEN /\ SetId(p, NoId)
         /\ applicationAppRoleResource_ReturnUnlock(p, Ok)
         /\ UNCHANGED work
    ELSE /\ work' = [work EXCEPT ![p] = UpdateEntry(coll, Configured(p))]
         /\ Goto(p, "update")
         /\ UNCHANGED <<locks, rid>>

\* CreateUpdate, a resource in state: helpers.AppRoleFindById, then msgraph UpdateAppRole
applicationAppRoleResourceCreateUpdate_Replace(p, coll) ==
    IF ~FindById(coll, Sub(p))
    THEN /\ applicationAppRoleResource_ReturnUnlock(p, Diag("EntryNotFound", Obj(p), Sub(p)))
         /\ UNCHANGED <<work, rid>>
    ELSE /\ work' = [work EXCEPT ![p] = UpdateEntry(coll, Configured(p))]
         /\ Goto(p, "update")
         /\ UNCHANGED <<locks, rid>>

\* CreateUpdate: client.Get, then the entry added to or replaced in the fetched app
applicationAppRoleResourceCreateUpdate_Get(p) ==
    /\ pc[p] = "get"
    /\ \E out \in GetOutcomes(Obj(p)) :
         /\ Issue(p, GetCall(Obj(p), out, "roles", IF out = "ok" THEN remote[Obj(p)].roles ELSE <<>>))
         /\ IF out # "ok"
            THEN applicationAppRoleResourceCreateUpdate_GetFailed(p, out)
            ELSE IF IsNewResource(p)
                 THEN applicationAppRoleResourceCreateUpdate_Append(p, remote[Obj(p)].roles)
                 ELSE applicationAppRoleResourceCreateUpdate_Replace(p, remote[Obj(p)].roles)
    /\ UNCHANGED <<remote, req>>

\* an app role write-back that releases the lock before the Read
applicationAppRoleResourceCreateUpdate_Update_Released(p) ==
    /\ pc[p] = "update"
    /\ \E out \in UpdateOutcomes(Obj(p)) :
         /\ Issue(p, UpdateCall(Obj(p), out, "roles", work[p]))
         /\ \/ /\ out = "error"
               /\ applicationAppRoleResource_ReturnUnlock(p, Diag("UpdateError", Obj(p), ""))
               /\ UNCHANGED <<remote, rid>>
            \/ /\ out = "ok"
               /\ remote' = Patched(Obj(p), "roles", work[p])
               /\ SetId(p, ResourceId(Obj(p), Sub(p)))
               /\ Goto(p, "read")
               /\ UnlockByName(Obj(p), p)
    /\ UNCHANGED <<req, work>>

\* CreateUpdate: client.Update with the mutated collection, then d.SetId
applicationAppRoleResourceCreateUpdate_Update(p) ==
    /\ pc[p] = "update"
    /\ \E out \in UpdateOutcomes(Obj(p)) :
         /\ Issue(p, UpdateCall(Obj(p), out, "roles", work[p]))
         /\ \/ /\ out = "error"
               /\ applicationAppRoleResource_ReturnUnlock(p, Diag("UpdateError", Obj(p), ""))
               /\ UNCHANGED <<remote, rid>>
            \/ /\ out = "ok"
               /\ remote' = Patched(Obj(p), "roles", work[p])
               /\ SetId(p, ResourceId(Obj(p), Sub(p)))
               /\ Goto(p, "read")
               /\ UNCHANGED locks
    /\ UNCHANGED <<req, work>>

\* the return of the Read handler: when CreateUpdate called it
\* (`return ...Read(ctx, d, meta)`), the deferred UnlockByName of CreateUpdate
\* runs as CreateUpdate returns the diagnostics of the Read
applicationAppRoleResourceRead_Return(p, d) ==
    /\ Return(p, d)
    /\ IF Kind(p) = "RoleRead"
       THEN UNCHANGED locks
       ELSE UnlockByName(Obj(p), p)

\* Read: the parent was fetched; helpers.AppRoleFindById, and the resource leaves the state
\* when the entry is not there
applicationAppRoleResourceRead_Find(p, coll) ==
    /\ IF FindById(coll, rid[p].sub)
       THEN UNCHANGED rid
       ELSE SetId(p, NoId)
    /\ applicationAppRoleResourceRead_Return(p, Ok)

\* Read: client.Get of the parent named by d.Id()
applicationAppRoleResourceRead_Get(p) ==
    /\ pc[p] = "read"
    /\ \E out \in GetOutcomes(rid[p].obj) :
         /\ Issue(p, GetCall(rid[p].obj, out, "roles",
                             IF out = "ok" THEN remote[rid[p].obj].roles ELSE <<>>))
         /\ \/ /\ out = "notfound"
               /\ SetId(p, NoId)
               /\ applicationAppRoleResourceRead_Return(p, Ok)
            \/ /\ out = "error"
               /\ applicationAppRoleResourceRead_Return(p, Diag("RetrieveError", rid[p].obj, ""))
               /\ UNCHANGED rid
            \/ /\ out = "ok"
               /\ applicationAppRoleResourceRead_Find(p, remote[rid[p].obj].roles)
    /\ UNCHANGED <<remote, req, work>>

\* Delete: id parsed from d.Id(), which is ResourceId(Obj(p), Sub(p)) for a
\* resource in state; LockByName + defer UnlockByName
applicationAppRoleResourceDelete_Lock(p) ==
    /\ pc[p] = "start"
    /\ LockByName(Obj(p), p)
    /\ Goto(p, "get")
    /\ UNCHANGED <<remote, req, rid, work, calls>>

\* an app role delete that treats a missing application as already gone
applicationAppRoleResourceDelete_GetFailed_Gone(p, out) ==
    IF out = "notfound"
    THEN /\ SetId(p, NoId)
         /\ applicationAppRoleResource_ReturnUnlock(p, Ok)
         /\ UNCHANGED work
    ELSE /\ applicationAppRoleResource_ReturnUnlock(p, Diag("RetrieveError", Obj(p), ""))
         /\ UNCHANGED <<work, rid>>

\* Delete: client.Get failed
applicationAppRoleResourceDelete_GetFailed(p, out) ==
    /\ IF out = "notfound"
       THEN applicationAppRoleResource_ReturnUnlock(p, Diag("ParentNotFound", Obj(p), ""))
       ELSE applicationAppRoleResource_ReturnUnlock(p, Diag("RetrieveError", Obj(p), ""))
    /\ UNCHANGED <<work, rid>>

\* an app role delete that reports a missing entry as an error
applicationAppRoleResourceDelete_Find_Strict(p, coll) ==
    IF ~FindById(coll, Sub(p))
    THEN /\ applicationAppRoleResource_ReturnUnlock(p, Diag("EntryNotFound", Obj(p), Sub(p)))
         /\ UNCHANGED <<work, rid>>
    ELSE /\ work' = [work EXCEPT ![p] =
                UpdateEntry(coll, [EntryById(coll, Sub(p)) EXCEPT !.enabled = FALSE])]
         /\ Goto(p, "disable")
         /\ UNCHANGED <<locks, rid>>

\* Delete: helpers.AppRoleFindById; the resource leaves the state when the entry is not
\* there, else the entry is disabled in the fetched app
applicationAppRoleResourceDelete_Find(p, coll) ==
    IF ~FindById(coll, Sub(p))
    THEN /\ SetId(p, NoId)
         /\ applicationAppRoleResource_ReturnUnlock(p, Ok)
         /\ UNCHANGED work
    ELSE /\ work' = [work EXCEPT ![p] =
                UpdateEntry(coll, [EntryById(coll, Sub(p)) EXCEPT !.enabled = FALSE])]
         /\ Goto(p, "disable")
         /\ UNCHANGED <<locks, rid>>

\* Delete: client.Get
applicationAppRoleResourceDelete_Get(p) ==
    /\ pc[p] = "get"
    /\ \E out \in GetOutcomes(Obj(p)) :
         /\ Issue(p, GetCall(Obj(p), out, "roles", IF out = "ok" THEN remote[Obj(p)].roles ELSE <<>>))
         /\ IF out # "ok"
            THEN applicationAppRoleResourceDelete_GetFailed(p, out)
            ELSE applicationAppRoleResourceDelete_Find(p, remote[Obj(p)].roles)
    /\ UNCHANGED <<remote, req>>

\* Delete: the first client.Update (entry disabled), then the entry removed
\* from the fetched app
applicationAppRoleResourceDelete_Disable(p) ==
    /\ pc[p] = "disable"
    /\ \E out \in UpdateOutcomes(Obj(p)) :
         /\ Issue(p, UpdateCall(Obj(p), out, "roles", work[p]))
         /\ \/ /\ out = "error"
               /\ applicationAppRoleResource_ReturnUnlock(p, Diag("DisableError", "", Sub(p)))
               /\ UNCHANGED <<remote, work>>
            \/ /\ out = "ok"
               /\ remote' = Patched(Obj(p), "roles", work[p])
               /\ work' = [work EXCEPT ![p] = RemoveEntry(@, EntryById(@, Sub(p)))]
               /\ Goto(p, "remove")
               /\ UNCHANGED locks
    /\ UNCHANGED <<req, rid>>

\* Delete: the second client.Update (entry removed)
applicationAppRoleResourceDelete_Remove(p) ==
    /\ pc[p] = "remove"
    /\ \E out \in UpdateOutcomes(Obj(p)) :
         /\ Issue(p, UpdateCall(Obj(p), out, "roles", work[p]))
         /\ \/ /\ out = "error"
               /\ applicationAppRoleResource_ReturnUnlock(p, Diag("RemoveError", "", Sub(p)))
               /\ UNCHANGED remote
            \/ /\ out = "ok"
               /\ remote' = Patched(Obj(p), "roles", work[p])
               /\ applicationAppRoleResource_ReturnUnlock(p, Ok)
    /\ UNCHANGED <<req, rid, work>>

applicationAppRoleResourceCreateUpdate(p) ==
    /\ Kind(p) \in {"RoleCreate", "RoleUpdate"}
    /\ \/ applicationAppRoleResourceCreateUpdate_Lock(p)
       \/ applicationAppRoleResourceCreateUpdate_Get(p)
       \/ applicationAppRoleResourceCreateUpdate_Update(p)
       \/ applicationAppRoleResourceRead_Get(p)

applicationAppRoleResourceRead(p) ==
    /\ Kind(p) = "RoleRead"
    /\ applicationAppRoleResourceRead_Get(p)

applicationAppRoleResourceDelete(p) ==
    /\ Kind(p) = "RoleDelete"
    /\ \/ applicationAppRoleResourceDelete_Lock(p)
       \/ applicationAppRoleResourceDelete_Get(p)
       \/ applicationAppRoleResourceDelete_Disable(p)
       \/ applicationAppRoleResourceDelete_Remove(p)

\* ---------------------------------- the OAuth2 permission scope resource
\* CreateUpdate: LockByName + defer UnlockByName
applicationOAuth2PermissionScopeResourceCreateUpdate_Lock(p) ==
    /\ pc[p] = "start"
    /\ LockByName(Obj(p), p)
    /\ Goto(p, "get")
    /\ UNCHANGED <<remote, req, rid, work, calls>>

\* the deferred UnlockByName of a handler that returns d
applicationOAuth2PermissionScopeResource_ReturnUnlock(p, d) ==
    /\ Return(p, d)
    /\ UnlockByName(Obj(p), p)

\* CreateUpdate: client.Get failed
applicationOAuth2PermissionScopeResourceCreateUpdate_GetFailed(p, out) ==
    /\ IF out = "notfound"
       THEN applicationOAuth2PermissionScopeResource_ReturnUnlock(p, Diag("ParentNotFound", Obj(p), ""))
       ELSE applicationOAuth2PermissionScopeResource_ReturnUnlock(p, Diag("RetrieveError", Obj(p), ""))
    /\ UNCHANGED <<work, rid>>

\* CreateUpdate, a new resource: msgraph AppendOAuth2PermissionScope, which fails when the ID exists
applicationOAuth2PermissionScopeResourceCreateUpdate_Append(p, coll) ==
    IF FindById(coll, Sub(p))
    THEN /\ applicationOAuth2PermissionScopeResource_ReturnUnlock(p, Diag("AlreadyExists", Obj(p), Sub(p)))
         /\ UNCHANGED <<work, rid>>
    ELSE /\ work' = [work EXCEPT ![p] = AppendEntry(coll, Configured(p))]
         /\ Goto(p, "update")
         /\ UNCHANGED <<locks, rid>>

\* CreateUpdate, a resource in state: helpers.OAuth2PermissionFindById, then msgraph UpdateOAuth2PermissionScope
applicationOAuth2PermissionScopeResourceCreateUpdate_Replace(p, coll) ==
    IF ~FindById(coll, Sub(p))
    THEN /\ applicationOAuth2PermissionScopeResource_ReturnUnlock(p, Diag("EntryNotFound", Obj(p), Sub(p)))
         /\ UNCHANGED <<work, rid>>
    ELSE /\ work' = [work EXCEPT ![p] = UpdateEntry(coll, Configured(p))]
         /\ Goto(p, "update")
         /\ UNCHANGED <<locks, rid>>

\* CreateUpdate: client.Get, then the entry added to or replaced in the fetched app
applicationOAuth2PermissionScopeResourceCreateUpdate_Get(p) ==
    /\ pc[p] = "get"
    /\ \E out \in GetOutcomes(Obj(p)) :
         /\ Issue(p, GetCall(Obj(p), out, "scopes", IF out = "ok" THEN remote[Obj(p)].scopes ELSE <<>>))
         /\ IF out # "ok"
            THEN applicationOAuth2PermissionScopeResourceCreateUpdate_GetFailed(p, out)
            ELSE IF IsNewResource(p)
                 THEN applicationOAuth2PermissionScopeResourceCreateUpdate_Append(p, remote[Obj(p)].scopes)
                 ELSE applicationOAuth2PermissionScopeResourceCreateUpdate_Replace(p, remote[Obj(p)].scopes)
    /\ UNCHANGED <<remote, req>>

\* a scope write-back that sets the resource ID whatever the Update returned
applicationOAuth2PermissionScopeResourceCreateUpdate_Update_IdFirst(p) ==
    /\ pc[p] = "update"
    /\ \E out \in UpdateOutcomes(Obj(p)) :
         /\ Issue(p, UpdateCall(Obj(p), out, "scopes", work[p]))
         /\ SetId(p, ResourceId(Obj(p), Sub(p)))
         /\ \/ /\ out = "error"
               /\ applicationOAuth2PermissionScopeResource_ReturnUnlock(p, Diag("UpdateError", Obj(p), ""))
               /\ UNCHANGED remote
            \/ /\ out = "ok"
               /\ remote' = Patched(Obj(p), "scopes", work[p])
               /\ Goto(p, "read")
               /\ UNCHANGED locks
    /\ UNCHANGED <<req, work>>

\* CreateUpdate: client.Update with the mutated collection, then d.SetId
applicationOAuth2PermissionScopeResourceCreateUpdate_Update(p) ==
    /\ pc[p] = "update"
    /\ \E out \in UpdateOutcomes(Obj(p)) :
         /\ Issue(p, UpdateCall(Obj(p), out, "scopes", work[p]))
         /\ \/ /\ out = "error"
               /\ applicationOAuth2PermissionScopeResource_ReturnUnlock(p, Diag("UpdateError", Obj(p), ""))
               /\ UNCHANGED <<remote, rid>>
            \/ /\ out = "ok"
               /\ remote' = Patched(Obj(p), "scopes", work[p])
               /\ SetId(p, ResourceId(Obj(p), Sub(p)))
               /\ Goto(p, "read")
               /\ UNCHANGED locks
    /\ UNCHANGED <<req, work>>

\* the return of the Read handler: when CreateUpdate called it
\* (`return ...Read(ctx, d, meta)`), the deferred UnlockByName of CreateUpdate
\* runs as CreateUpdate returns the diagnostics of the Read
applicationOAuth2PermissionScopeResourceRead_Return(p, d) ==
    /\ Return(p, d)
    /\ IF Kind(p) = "ScopeRead"
       THEN UNCHANGED locks
       ELSE UnlockByName(Obj(p), p)

\* Read: the parent was fetched; helpers.OAuth2PermissionFindById, and the resource leaves the state
\* when the entry is not there
applicationOAuth2PermissionScopeResourceRead_Find(p, coll) ==
    /\ IF FindById(coll, rid[p].sub)
       THEN UNCHANGED rid
       ELSE SetId(p, NoId)
    /\ applicationOAuth2PermissionScopeResourceRead_Return(p, Ok)

\* Read: client.Get of the parent named by d.Id()
applicationOAuth2PermissionScopeResourceRead_Get(p) ==
    /\ pc[p] = "read"
    /\ \E out \in GetOutcomes(rid[p].obj) :
         /\ Issue(p, GetCall(rid[p].obj, out, "scopes",
                             IF out = "ok" THEN remote[rid[p].obj].scopes ELSE <<>>))
         /\ \/ /\ out = "notfound"
               /\ SetId(p, NoId)
               /\ applicationOAuth2PermissionScopeResourceRead_Return(p, Ok)
            \/ /\ out = "error"
               /\ applicationOAuth2PermissionScopeResourceRead_Return(p, Diag("RetrieveError", rid[p].obj, ""))
               /\ UNCHANGED rid
            \/ /\ out = "ok"
               /\ applicationOAuth2PermissionScopeResourceRead_Find(p, remote[rid[p].obj].scopes)
    /\ UNCHANGED <<remote, req, work>>

\* Delete: id parsed from d.Id(), which is ResourceId(Obj(p), Sub(p)) for a
\* resource in state; LockByName + defer UnlockByName
applicationOAuth2PermissionScopeResourceDelete_Lock(p) ==
    /\ pc[p] = "start"
    /\ LockByName(Obj(p), p)
    /\ Goto(p, "get")
    /\ UNCHANGED <<remote, req, rid, work, calls>>

\* Delete: client.Get failed
applicationOAuth2PermissionScopeResourceDelete_GetFailed(p, out) ==
    /\ IF out = "notfound"
       THEN applicationOAuth2PermissionScopeResource_ReturnUnlock(p, Diag("ParentNotFound", Obj(p), ""))
       ELSE applicationOAuth2PermissionScopeResource_ReturnUnlock(p, Diag("RetrieveError", Obj(p), ""))
    /\ UNCHANGED <<work, rid>>

\* Delete: helpers.OAuth2PermissionFindById; the resource leaves the state when the entry is not
\* there, else the entry is disabled in the fetched app
applicationOAuth2PermissionScopeResourceDelete_Find(p, coll) ==
    IF ~FindById(coll, Sub(p))
    THEN /\ SetId(p, NoId)
         /\ applicationOAuth2PermissionScopeResource_ReturnUnlock(p, Ok)
         /\ UNCHANGED work
    ELSE /\ work' = [work EXCEPT ![p] =
                UpdateEntry(coll, [EntryById(coll, Sub(p)) EXCEPT !.enabled = FALSE])]
         /\ Goto(p, "disable")
         /\ UNCHANGED <<locks, rid>>

\* Delete: client.Get
applicationOAuth2PermissionScopeResourceDelete_Get(p) ==
    /\ pc[p] = "get"
    /\ \E out \in GetOutcomes(Obj(p)) :
         /\ Issue(p, GetCall(Obj(p), out, "scopes", IF out = "ok" THEN remote[Obj(p)].scopes ELSE <<>>))
         /\ IF out # "ok"
            THEN applicationOAuth2PermissionScopeResourceDelete_GetFailed(p, out)
            ELSE applicationOAuth2PermissionScopeResourceDelete_Find(p, remote[Obj(p)].scopes)
    /\ UNCHANGED <<remote, req>>

\* a scope delete that removes the entry without the write that disables it
applicationOAuth2PermissionScopeResourceDelete_Disable_Skipped(p) ==
    /\ pc[p] = "disable"
    /\ work' = [work EXCEPT ![p] = RemoveEntry(@, EntryById(@, Sub(p)))]
    /\ Goto(p, "remove")
    /\ UNCHANGED <<remote, locks, req, rid, calls>>

\* Delete: the first client.Update (entry disabled), then the entry removed
\* from the fetched app
applicationOAuth2PermissionScopeResourceDelete_Disable(p) ==
    /\ pc[p] = "disable"
    /\ \E out \in UpdateOutcomes(Obj(p)) :
         /\ Issue(p, UpdateCall(Obj(p), out, "scopes", work[p]))
         /\ \/ /\ out = "error"
               /\ applicationOAuth2PermissionScopeResource_ReturnUnlock(p, Diag("DisableError", "", Sub(p)))
               /\ UNCHANGED <<remote, work>>
            \/ /\ out = "ok"
               /\ remote' = Patched(Obj(p), "scopes", work[p])
               /\ work' = [work EXCEPT ![p] = RemoveEntry(@, EntryById(@, Sub(p)))]
               /\ Goto(p, "remove")
               /\ UNCHANGED locks
    /\ UNCHANGED <<req, rid>>

\* Delete: the second client.Update (entry removed)
applicationOAuth2PermissionScopeResourceDelete_Remove(p) ==
    /\ pc[p] = "remove"
    /\ \E out \in UpdateOutcomes(Obj(p)) :
         /\ Issue(p, UpdateCall(Obj(p), out, "scopes", work[p]))
         /\ \/ /\ out = "error"
               /\ applicationOAuth2PermissionScopeResource_ReturnUnlock(p, Diag("RemoveError", "", Sub(p)))
               /\ UNCHANGED remote
            \/ /\ out = "ok"
               /\ remote' = Patched(Obj(p), "scopes", work[p])
               /\ applicationOAuth2PermissionScopeResource_ReturnUnlock(p, Ok)
    /\ UNCHANGED <<req, rid, work>>

applicationOAuth2PermissionScopeResourceCreateUpdate(p) ==
    /\ Kind(p) \in {"ScopeCreate", "ScopeUpdate"}
    /\ \/ applicationOAuth2PermissionScopeResourceCreateUpdate_Lock(p)
       \/ applicationOAuth2PermissionScopeResourceCreateUpdate_Get(p)
       \/ applicationOAuth2PermissionScopeResourceCreateUpdate_Update(p)
       \/ applicationOAuth2PermissionScopeResourceRead_Get(p)

applicationOAuth2PermissionScopeResourceRead(p) ==
    /\ Kind(p) = "ScopeRead"
    /\ applicationOAuth2PermissionScopeResourceRead_Get(p)

applicationOAuth2PermissionScopeResourceDelete(p) ==
    /\ Kind(p) = "ScopeDelete"
    /\ \/ applicationOAuth2PermissionScopeResourceDelete_Lock(p)
       \/ applicationOAuth2PermissionScopeResourceDelete_Get(p)
       \/ applicationOAuth2PermissionScopeResourceDelete_Disable(p)
       \/ applicationOAuth2PermissionScopeResourceDelete_Remove(p)

\* ------------------------------------------------ the certificate resource
\* a duplicate scan that finds no key credential
KeyIdExists_Never(coll, id) == FALSE

\* Create: the scan of the fetched credentials for the new KeyId
KeyIdExists(coll, id) ==
    \E i \in 1 .. Len(coll) : coll[i].id # NilId /\ coll[i].id = id

\* a filter that keeps every key credential
OtherKeyed_All(coll, id) == coll

\* Delete: the credentials copied from the fetched app, those that have a
\* KeyId, and one other than id
OtherKeyed(coll, id) ==
    SelectSeq(coll, LAMBDA c : c.id # NilId /\ c.id # id)

\* the certificate create entered without taking the named lock
applicationCertificateResourceCreate_Lock_NotTaken(p) ==
    /\ pc[p] = "start"
    /\ Goto(p, "get")
    /\ UNCHANGED <<remote, locks, req, rid, work, calls>>

\* Create: LockByName + defer UnlockByName
applicationCertificateResourceCreate_Lock(p) ==
    /\ pc[p] = "start"
    /\ LockByName(Obj(p), p)
    /\ Goto(p, "get")
    /\ UNCHANGED <<remote, req, rid, work, calls>>

\* a certificate handler that returns without its deferred UnlockByName
applicationCertificateResource_ReturnUnlock_Kept(p, d) ==
    /\ Return(p, d)
    /\ UNCHANGED locks

\* the deferred UnlockByName of a certificate handler that returns d
applicationCertificateResource_ReturnUnlock(p, d) ==
    /\ Return(p, d)
    /\ UnlockByName(Obj(p), p)

\* Create: client.Get failed
applicationCertificateResourceCreate_GetFailed(p, out) ==
    /\ IF out = "notfound"
       THEN applicationCertificateResource_ReturnUnlock(p, Diag("ParentNotFound", Obj(p), ""))
       ELSE applicationCertificateResource_ReturnUnlock(p, Diag("RetrieveError", Obj(p), ""))
    /\ UNCHANGED <<work, rid>>

\* a certificate create that writes back the credentials it fetched
applicationCertificateResourceCreate_Append_Dropped(p, coll) ==
    IF KeyIdExists(coll, Sub(p))
    THEN /\ applicationCertificateResource_ReturnUnlock(p, Diag("AlreadyExists", Obj(p), Sub(p)))
         /\ UNCHANGED <<work, rid>>
    ELSE /\ work' = [work EXCEPT ![p] = coll]
         /\ Goto(p, "update")
         /\ UNCHANGED <<locks, rid>>

\* Create: the fetched credentials copied and the new one appended, unless
\* one of them has its KeyId
applicationCertificateResourceCreate_Append(p, coll) ==
    IF KeyIdExists(coll, Sub(p))
    THEN /\ applicationCertificateResource_ReturnUnlock(p, Diag("AlreadyExists", Obj(p), Sub(p)))
         /\ UNCHANGED <<work, rid>>
    ELSE /\ work' = [work EXCEPT ![p] = Append(coll, Entry(Sub(p), TRUE))]
         /\ Goto(p, "update")
         /\ UNCHANGED <<locks, rid>>

\* Create: client.Get
applicationCertificateResourceCreate_Get(p) ==
    /\ pc[p] = "get"
    /\ \E out \in GetOutcomes(Obj(p)) :
         /\ Issue(p, GetCall(Obj(p), out, "keys", IF out = "ok" THEN remote[Obj(p)].keys ELSE <<>>))
         /\ IF out # "ok"
            THEN applicationCertificateResourceCreate_GetFailed(p, out)
            ELSE applicationCertificateResourceCreate_Append(p, remote[Obj(p)].keys)
    /\ UNCHANGED <<remote, req>>

\* Create: client.Update with the new credentials, then d.SetId
applicationCertificateResourceCreate_Update(p) ==
    /\ pc[p] = "update"
    /\ \E out \in UpdateOutcomes(Obj(p)) :
         /\ Issue(p, UpdateCall(Obj(p), out, "keys", work[p]))
         /\ \/ /\ out = "error"
               /\ applicationCertificateResource_ReturnUnlock(p, Diag("UpdateError", Obj(p), ""))
               /\ UNCHANGED <<remote, rid>>
            \/ /\ out = "ok"
               /\ remote' = Patched(Obj(p), "keys", work[p])
               /\ SetId(p, ResourceId(Obj(p), Sub(p)))
               /\ Goto(p, "read")
               /\ UNCHANGED locks
    /\ UNCHANGED <<req, work>>

\* the return of the Read handler: when Create called it, the deferred
\* UnlockByName of Create runs as Create returns the diagnostics of the Read
applicationCertificateResourceRead_Return(p, d) ==
    /\ Return(p, d)
    /\ IF Kind(p) = "CertRead"
       THEN UNCHANGED locks
       ELSE UnlockByName(Obj(p), p)

\* a certificate read that keeps the resource ID whatever it finds
applicationCertificateResourceRead_Find_Kept(p, coll) ==
    /\ UNCHANGED rid
    /\ applicationCertificateResourceRead_Return(p, Ok)

\* Read: the parent was fetched; the scan for the KeyId, and the resource
\* leaves the state when no credential has it
applicationCertificateResourceRead_Find(p, coll) ==
    /\ IF \E i \in 1 .. Len(coll) : coll[i].id # NilId /\ coll[i].id = rid[p].sub
       THEN UNCHANGED rid
       ELSE SetId(p, NoId)
    /\ applicationCertificateResourceRead_Return(p, Ok)

\* Read: client.Get of the parent named by d.Id()
applicationCertificateResourceRead_Get(p) ==
    /\ pc[p] = "read"
    /\ \E out \in GetOutcomes(rid[p].obj) :
         /\ Issue(p, GetCall(rid[p].obj, out, "keys",
                             IF out = "ok" THEN remote[rid[p].obj].keys ELSE <<>>))
         /\ \/ /\ out = "notfound"
               /\ SetId(p, NoId)
               /\ applicationCertificateResourceRead_Return(p, Ok)
            \/ /\ out = "error"
               /\ applicationCertificateResourceRead_Return(p, Diag("RetrieveError", rid[p].obj, ""))
               /\ UNCHANGED rid
            \/ /\ out = "ok"
               /\ applicationCertificateResourceRead_Find(p, remote[rid[p].obj].keys)
    /\ UNCHANGED <<remote, req, work>>

applicationCertificateResourceCreate(p) ==
    /\ Kind(p) = "CertCreate"
    /\ \/ applicationCertificateResourceCreate_Lock(p)
       \/ applicationCertificateResourceCreate_Get(p)
       \/ applicationCertificateResourceCreate_Update(p)
       \/ applicationCertificateResourceRead_Get(p)

applicationCertificateResourceRead(p) ==
    /\ Kind(p) = "CertRead"
    /\ applicationCertificateResourceRead_Get(p)

\* Delete: id parsed from d.Id(); LockByName + defer UnlockByName
applicationCertificateResourceDelete_Lock(p) ==
    /\ pc[p] = "start"
    /\ LockByName(Obj(p), p)
    /\ Goto(p, "get")
    /\ UNCHANGED <<remote, req, rid, work, calls>>

\* Delete: client.Get failed
applicationCertificateResourceDelete_GetFailed(p, out) ==
    /\ IF out = "notfound"
       THEN applicationCertificateResource_ReturnUnlock(p, Diag("ParentNotFound", Obj(p), ""))
       ELSE applicationCertificateResource_ReturnUnlock(p, Diag("RetrieveError", Obj(p), ""))
    /\ UNCHANGED work

\* Delete: client.Get, then the credentials to keep copied from the fetched app
applicationCertificateResourceDelete_Get(p) ==
    /\ pc[p] = "get"
    /\ \E out \in GetOutcomes(Obj(p)) :
         /\ Issue(p, GetCall(Obj(p), out, "keys", IF out = "ok" THEN remote[Obj(p)].keys ELSE <<>>))
         /\ IF out # "ok"
            THEN applicationCertificateResourceDelete_GetFailed(p, out)
            ELSE /\ work' = [work EXCEPT ![p] = OtherKeyed(remote[Obj(p)].keys, Sub(p))]
                 /\ Goto(p, "update")
                 /\ UNCHANGED locks
    /\ UNCHANGED <<remote, req, rid>>

\* Delete: the one client.Update, with the credentials kept
applicationCertificateResourceDelete_Update(p) ==
    /\ pc[p] = "update"
    /\ \E out \in UpdateOutcomes(Obj(p)) :
         /\ Issue(p, UpdateCall(Obj(p), out, "keys", work[p]))
         /\ \/ /\ out = "error"
               /\ applicationCertificateResource_ReturnUnlock(p, Diag("UpdateError", Obj(p), Sub(p)))
               /\ UNCHANGED remote
            \/ /\ out = "ok"
               /\ remote' = Patched(Obj(p), "keys", work[p])
               /\ applicationCertificateResource_ReturnUnlock(p, Ok)
    /\ UNCHANGED <<req, rid, work>>

applicationCertificateResourceDelete(p) ==
    /\ Kind(p) = "CertDelete"
    /\ \/ applicationCertificateResourceDelete_Lock(p)
       \/ applicationCertificateResourceDelete_Get(p)
       \/ applicationCertificateResourceDelete_Update(p)

\* ------------------------------------------------ the application resource
\* the values of the entries of a block
Values(block) == [i \in 1 .. Len(block) |-> block[i].value]

\* applicationValidateRolesScopes: TRUE when it returns nil, which it does
\* unless a non-empty value occurs twice among the roles and scopes given
applicationValidateRolesScopes(appRoles, oauth2Permissions) ==
    LET values == SelectSeq(Values(appRoles) \o Values(oauth2Permissions),
                            LAMBDA val : val # "")
    IN  \A i \in 1 .. Len(values), j \in 1 .. Len(values) :
            i # j => values[i] # values[j]

\* Create: the validation, which gets both configured blocks
applicationResourceCreate_Valid(p) ==
    applicationValidateRolesScopes(req[p].roles, req[p].scopes)

\* Update: the validation, which runs when the scopes changed (d.HasChange)
applicationResourceUpdate_Valid(p) ==
    req[p].chScopes => applicationValidateRolesScopes(req[p].roles, req[p].scopes)

\* the handler's position once the scopes are done: the owners are set when
\* they changed
AfterSetScopes(p) == IF req[p].chOwners THEN "setowners" ELSE "done"

AfterSetAppRoles(p) ==
    IF req[p].chScopes /\ req[p].scopes # <<>> THEN "setscopes" ELSE AfterSetScopes(p)

\* the handler's position after its client.Update: each setter runs when its
\* block changed (d.HasChange), the scopes setter only for a non-empty block
AfterUpdate(p) ==
    IF req[p].chRoles THEN "setroles" ELSE AfterSetAppRoles(p)

\* the handler moves to position l, or returns nil when l is its end
Continue(p, l) ==
    IF l = "done" THEN Return(p, Ok) ELSE Goto(p, l)

\* Update: helpers.ApplicationFindByName when prevent_duplicate_names, then
\* the validation
applicationResourceUpdate_CheckName(p) ==
    /\ pc[p] = "start"
    /\ req[p].preventDup
    /\ \E out \in NameOutcomes(rid[p].obj) :
         /\ Issue(p, NameCall(rid[p].obj, out))
         /\ \/ /\ out = "error"
               /\ Return(p, Diag("NameCheckError", "", ""))
            \/ /\ out = "duplicate"
               /\ Return(p, Diag("Duplicate", "", ""))
            \/ /\ out = "ok"
               /\ IF applicationResourceUpdate_Valid(p)
                  THEN Goto(p, "update")
                  ELSE Return(p, Diag("ValidationError", "", ""))
    /\ UNCHANGED <<remote, locks, req, rid, work>>

\* Update, no name check: the validation rejects the configuration
applicationResourceUpdate_Invalid(p) ==
    /\ pc[p] = "start"
    /\ ~req[p].preventDup
    /\ ~applicationResourceUpdate_Valid(p)
    /\ Return(p, Diag("ValidationError", "", ""))
    /\ UNCHANGED <<remote, locks, req, rid, work, calls>>

\* Update: client.Update with the application's own properties (AppRoles and
\* Api.OAuth2PermissionScopes are not set in them); no LockByName
applicationResourceUpdate_Update(p) ==
    /\ \/ pc[p] = "update"
       \/ pc[p] = "start" /\ ~req[p].preventDup /\ applicationResourceUpdate_Valid(p)
    /\ \E out \in UpdateOutcomes(rid[p].obj) :
         /\ Issue(p, UpdateCall(rid[p].obj, out, "", <<>>))
         /\ \/ /\ out = "error"
               /\ Return(p, Diag("UpdateError", rid[p].obj, ""))
            \/ /\ out = "ok"
               /\ Continue(p, AfterUpdate(p))
    /\ UNCHANGED <<remote, locks, req, rid, work>>

\* helpers.ApplicationSetAppRoles: the application's app roles are set to the
\* configured ones
ApplicationSetAppRoles(p) ==
    \E out \in UpdateOutcomes(rid[p].obj) :
        /\ Issue(p, UpdateCall(rid[p].obj, out, "roles", req[p].roles))
        /\ \/ /\ out = "error"
              /\ Return(p, Diag("SetAppRolesError", "", ""))
              /\ UNCHANGED remote
           \/ /\ out = "ok"
              /\ remote' = Patched(rid[p].obj, "roles", req[p].roles)
              /\ Continue(p, AfterSetAppRoles(p))

\* helpers.ApplicationSetOAuth2PermissionScopes: the application's scopes are
\* set to the configured ones
ApplicationSetOAuth2PermissionScopes(p) ==
    \E out \in UpdateOutcomes(rid[p].obj) :
        /\ Issue(p, UpdateCall(rid[p].obj, out, "scopes", req[p].scopes))
        /\ \/ /\ out = "error"
              /\ Return(p, Diag("SetScopesError", "", ""))
              /\ UNCHANGED remote
           \/ /\ out = "ok"
              /\ remote' = Patched(rid[p].obj, "scopes", req[p].scopes)
              /\ Continue(p, AfterSetScopes(p))

\* Update: if d.HasChange("app_role"), helpers.ApplicationSetAppRoles
applicationResourceUpdate_SetAppRoles(p) ==
    /\ pc[p] = "setroles"
    /\ ApplicationSetAppRoles(p)
    /\ UNCHANGED <<locks, req, rid, work>>

\* Update: if d.HasChange("api.0.oauth2_permission_scope"),
\* helpers.ApplicationSetOAuth2PermissionScopes
applicationResourceUpdate_SetScopes(p) ==
    /\ pc[p] = "setscopes"
    /\ ApplicationSetOAuth2PermissionScopes(p)
    /\ UNCHANGED <<locks, req, rid, work>>

\* helpers.ApplicationSetOwners: the owners of the application are set to
\* the configured ones
ApplicationSetOwners(p, next) ==
    \E out \in RelOutcomes(rid[p].obj) :
        /\ Issue(p, RelCall("SetOwners", rid[p].obj, out, "owners", req[p].owners))
        /\ \/ /\ out = "error"
              /\ Return(p, Diag("OwnersError", rid[p].obj, ""))
           \/ /\ out = "ok"
              /\ Continue(p, next)

\* Update: if d.HasChange("owners"), helpers.ApplicationSetOwners
applicationResourceUpdate_SetOwners(p) ==
    /\ pc[p] = "setowners"
    /\ ApplicationSetOwners(p, "done")
    /\ UNCHANGED <<remote, locks, req, rid, work>>

applicationResourceUpdate(p) ==
    /\ Kind(p) = "AppUpdate"
    /\ \/ applicationResourceUpdate_CheckName(p)
       \/ applicationResourceUpdate_Invalid(p)
       \/ applicationResourceUpdate_SetOwners(p)
       \/ applicationResourceUpdate_Update(p)
       \/ applicationResourceUpdate_SetAppRoles(p)
       \/ applicationResourceUpdate_SetScopes(p)

\* Create: helpers.ApplicationFindByName when prevent_duplicate_names, then
\* the validation
applicationResourceCreate_CheckName(p) ==
    /\ pc[p] = "start"
    /\ req[p].preventDup
    /\ \E out \in NameOutcomes(Obj(p)) :
         /\ Issue(p, NameCall(Obj(p), out))
         /\ \/ /\ out = "error"
               /\ Return(p, Diag("NameCheckError", "", ""))
            \/ /\ out = "duplicate"
               /\ Return(p, Diag("Duplicate", "", ""))
            \/ /\ out = "ok"
               /\ IF applicationResourceCreate_Valid(p)
                  THEN Goto(p, "create")
                  ELSE Return(p, Diag("ValidationError", "", ""))
    /\ UNCHANGED <<remote, locks, req, rid, work>>

\* Create, no name check: the validation rejects the configuration
applicationResourceCreate_Invalid(p) ==
    /\ pc[p] = "start"
    /\ ~req[p].preventDup
    /\ ~applicationResourceCreate_Valid(p)
    /\ Return(p, Diag("ValidationError", "", ""))
    /\ UNCHANGED <<remote, locks, req, rid, work, calls>>

\* Create: client.Create with the app roles and scopes of the configuration,
\* then d.SetId; there is no wait for replication
applicationResourceCreate_Create(p) ==
    /\ \/ pc[p] = "create"
       \/ pc[p] = "start" /\ ~req[p].preventDup /\ applicationResourceCreate_Valid(p)
    /\ \E out \in CreateOutcomes(Obj(p)) :
         /\ Issue(p, CreateCall(Obj(p), out))
         /\ \/ /\ out = "error"
               /\ Return(p, Diag("CreateError", "", ""))
               /\ UNCHANGED <<remote, rid>>
            \/ /\ out = "ok"
               /\ remote' = [remote EXCEPT ![Obj(p)] =
                                Object(TRUE, req[p].roles, req[p].scopes, <<>>)]
               /\ SetId(p, ResourceId(Obj(p), ""))
               /\ Goto(p, IF req[p].owners # {} THEN "setowners" ELSE "read")
    /\ UNCHANGED <<locks, req, work>>

\* Create: if owners are configured, helpers.ApplicationSetOwners
applicationResourceCreate_SetOwners(p) ==
    /\ pc[p] = "setowners"
    /\ ApplicationSetOwners(p, "read")
    /\ UNCHANGED <<remote, locks, req, rid, work>>

applicationResourceCreate(p) ==
    /\ Kind(p) = "AppCreate"
    /\ \/ applicationResourceCreate_CheckName(p)
       \/ applicationResourceCreate_Invalid(p)
       \/ applicationResourceCreate_Create(p)
       \/ applicationResourceCreate_SetOwners(p)

\* Read: client.Get of d.Id()
applicationResourceRead_Get(p) ==
    /\ pc[p] = "read"
    /\ \E out \in GetOutcomes(rid[p].obj) :
         /\ Issue(p, GetCall(rid[p].obj, out, "", <<>>))
         /\ \/ /\ out = "notfound"
               /\ SetId(p, NoId)
               /\ Return(p, Ok)
            \/ /\ out = "error"
               /\ Return(p, Diag("RetrieveError", rid[p].obj, ""))
               /\ UNCHANGED rid
            \/ /\ out = "ok"
               /\ Goto(p, "owners")
               /\ UNCHANGED rid
    /\ UNCHANGED <<remote, locks, req, work>>

\* Read: client.ListOwners
applicationResourceRead_ListOwners(p) ==
    /\ pc[p] = "owners"
    /\ \E out \in ListOutcomes(rid[p].obj) :
         /\ Issue(p, ListCall("ListOwners", rid[p].obj, out))
         /\ \/ /\ out = "error"
               /\ Return(p, Diag("OwnersError", rid[p].obj, ""))
            \/ /\ out = "ok"
               /\ Return(p, Ok)
    /\ UNCHANGED <<remote, locks, req, rid, work>>

applicationResourceRead(p) ==
    /\ Kind(p) \in {"AppRead", "AppCreate"}
    /\ \/ applicationResourceRead_Get(p)
       \/ applicationResourceRead_ListOwners(p)

\* ------------------------------------------------------ the group resource
\* Read: client.Get of d.Id()
groupResourceRead_Get(p) ==
    /\ pc[p] = "read"
    /\ \E out \in GetOutcomes(rid[p].obj) :
         /\ Issue(p, GetCall(rid[p].obj, out, "", <<>>))
         /\ \/ /\ out = "notfound"
               /\ SetId(p, NoId)
               /\ Return(p, Ok)
            \/ /\ out = "error"
               /\ Return(p, Diag("RetrieveError", rid[p].obj, ""))
               /\ UNCHANGED rid
            \/ /\ out = "ok"
               /\ Goto(p, "owners")
               /\ UNCHANGED rid
    /\ UNCHANGED <<remote, locks, req, work>>

\* Read: client.ListOwners
groupResourceRead_ListOwners(p) ==
    /\ pc[p] = "owners"
    /\ \E out \in ListOutcomes(rid[p].obj) :
         /\ Issue(p, ListCall("ListOwners", rid[p].obj, out))
         /\ \/ /\ out = "error"
               /\ Return(p, Diag("OwnersError", rid[p].obj, ""))
            \/ /\ out = "ok"
               /\ Goto(p, "members")
    /\ UNCHANGED <<remote, locks, req, rid, work>>

\* Read: client.ListMembers
groupResourceRead_ListMembers(p) ==
    /\ pc[p] = "members"
    /\ \E out \in ListOutcomes(rid[p].obj) :
         /\ Issue(p, ListCall("ListMembers", rid[p].obj, out))
         /\ \/ /\ out = "error"
               /\ Return(p, Diag("MembersError", rid[p].obj, ""))
            \/ /\ out = "ok"
               /\ Return(p, Ok)
    /\ UNCHANGED <<remote, locks, req, rid, work>>

groupResourceRead(p) ==
    /\ Kind(p) \in {"GroupRead", "GroupCreate", "GroupUpdate"}
    /\ \/ groupResourceRead_Get(p)
       \/ groupResourceRead_ListOwners(p)
       \/ groupResourceRead_ListMembers(p)

\* ------------------------------------------------------- the user resource
\* a user read that reports a 404 as an error
userResourceRead_NotFoundIsError(p) ==
    /\ Kind(p) \in {"UserRead", "UserCreate"}
    /\ pc[p] = "read"
    /\ \E out \in GetOutcomes(rid[p].obj) :
         /\ Issue(p, GetCall(rid[p].obj, out, "", <<>>))
         /\ \/ /\ out \in {"notfound", "error"}
               /\ Return(p, Diag("RetrieveError", rid[p].obj, ""))
               /\ UNCHANGED rid
            \/ /\ out = "ok"
               /\ Return(p, Ok)
               /\ UNCHANGED rid
    /\ UNCHANGED <<remote, locks, req, work>>

\* Read: client.Get of d.Id()
userResourceRead(p) ==
    /\ Kind(p) \in {"UserRead", "UserCreate"}
    /\ pc[p] = "read"
    /\ \E out \in GetOutcomes(rid[p].obj) :
         /\ Issue(p, GetCall(rid[p].obj, out, "", <<>>))
         /\ \/ /\ out = "notfound"
               /\ SetId(p, NoId)
               /\ Return(p, Ok)
            \/ /\ out = "error"
               /\ Return(p, Diag("RetrieveError", rid[p].obj, ""))
               /\ UNCHANGED rid
            \/ /\ out = "ok"
               /\ Return(p, Ok)
               /\ UNCHANGED rid
    /\ UNCHANGED <<remote, locks, req, work>>

\* ------------------------------------------------------------ the system
\* The configuration of an operation: the handler, the object and the entry
\* it names, the entry's enabled flag, and for an application update the
\* changed blocks.
Req(kind, obj, sub, enabled, chRoles, roles, chScopes, scopes) ==
    [kind |-> kind, obj |-> obj, sub |-> sub, enabled |-> enabled,
     chRoles |-> chRoles, roles |-> roles, chScopes |-> chScopes, scopes |-> scopes,
     value |-> "", preventDup |-> FALSE, provider |-> "tf1",
     chMembers |-> FALSE, members |-> {}, chOwners |-> FALSE, owners |-> {}]

\* what an application update may set a changed block to
Blocks == {<<>>, <<Entry("y", TRUE)>>}

\* The application "a2" does not exist, so the entry an operation on it names
\* and the blocks an update of it sets make no difference: one of each is kept.
Targets == {<<"a1", "x">>, <<"a1", "y">>, <<"a2", "x">>}

Reqs ==
    {Req(k, t[1], t[2], TRUE, FALSE, <<>>, FALSE, <<>>) :
        k \in RoleOps \cup ScopeOps \cup CertOps, t \in Targets}
    \cup {Req(k, "a1", i, FALSE, FALSE, <<>>, FALSE, <<>>) :
        k \in {"RoleUpdate", "ScopeUpdate"}, i \in SubIds}
    \cup {Req("AppUpdate", "a1", "", TRUE, TRUE, r, TRUE, s) : r \in Blocks, s \in Blocks}
    \cup {Req("AppUpdate", "a1", "", TRUE, FALSE, <<>>, TRUE, s) : s \in Blocks}
    \cup {Req("AppUpdate", "a1", "", TRUE, TRUE, r, FALSE, <<>>) : r \in Blocks}
    \cup {Req("AppUpdate", a, "", TRUE, FALSE, <<>>, FALSE, <<>>) : a \in Apps}
    \cup {Req("AppRead", a, "", TRUE, FALSE, <<>>, FALSE, <<>>) : a \in Apps}
    \cup {Req("GroupRead", g, "", TRUE, FALSE, <<>>, FALSE, <<>>) : g \in Groups}
    \cup {Req("UserRead", u, "", TRUE, FALSE, <<>>, FALSE, <<>>) : u \in Users}

\* Operations are interchangeable: Init numbers them in a fixed order of
\* their configurations, so that each combination is explored once.
KindOrder ==
    <<"RoleCreate", "RoleUpdate", "RoleRead", "RoleDelete",
      "ScopeCreate", "ScopeUpdate", "ScopeRead", "ScopeDelete",
      "CertCreate", "CertRead", "CertDelete",
      "AppUpdate", "AppRead", "GroupRead", "UserRead">>

Rank(r) ==
    (CHOOSE i \in 1 .. Len(KindOrder) : KindOrder[i] = r.kind) * 32
    + (IF r.obj \in {"a1", "g1", "u1"} THEN 0 ELSE 16)
    + (IF r.sub = "y" THEN 8 ELSE 0)
    + (IF r.enabled THEN 0 ELSE 4)
    + (IF r.roles = <<>> THEN 0 ELSE 2)
    + (IF r.scopes = <<>> THEN 0 ELSE 1)

\* The directory at the start: of each type one object exists and one does
\* not.  The application that exists has either no entries, or one app role,
\* one scope and two key credentials, one of them without a KeyId.
InitRemotes ==
    {[o \in Objects |->
        IF o = "a1"
        THEN IF populated
             THEN Object(TRUE, <<Entry("x", TRUE)>>, <<Entry("x", TRUE)>>,
                         <<Entry(NilId, TRUE), Entry("x", TRUE)>>)
             ELSE Object(TRUE, <<>>, <<>>, <<>>)
        ELSE Object(o \in {"g1", "u1"}, <<>>, <<>>, <<>>)] : populated \in BOOLEAN}

Init ==
    /\ remote \in InitRemotes
    /\ locks = FreeLocks
    /\ req \in [Procs -> Reqs]
    /\ \A p \in Procs, q \in Procs : p < q => Rank(req[p]) <= Rank(req[q])
    /\ pc = [p \in Procs |-> IF req[p].kind \in ReadOps THEN "read" ELSE "start"]
    /\ rid = [p \in Procs |->
                IF req[p].kind \in {"RoleCreate", "ScopeCreate", "CertCreate"}
                THEN NoId
                ELSE ResourceId(req[p].obj, req[p].sub)]
    /\ work = [p \in Procs |-> <<>>]
    /\ result = [p \in Procs |-> Pending]
    /\ calls = [p \in Procs |-> <<>>]

Next ==
    \E p \in Procs :
        \/ applicationAppRoleResourceCreateUpdate(p)
        \/ applicationAppRoleResourceRead(p)
        \/ applicationAppRoleResourceDelete(p)
        \/ applicationOAuth2PermissionScopeResourceCreateUpdate(p)
        \/ applicationOAuth2PermissionScopeResourceRead(p)
        \/ applicationOAuth2PermissionScopeResourceDelete(p)
        \/ applicationCertificateResourceCreate(p)
        \/ applicationCertificateResourceRead(p)
        \/ applicationCertificateResourceDelete(p)
        \/ applicationResourceUpdate(p)
        \/ applicationResourceRead(p)
        \/ groupResourceRead(p)
        \/ userResourceRead(p)

Spec == Init /\ [][Next]_vars


\* The handlers under fair scheduling: a handler that can take a step
\* eventually takes one (every remote call returns).
FairSpec == Spec /\ WF_vars(Next)

\* ------------------------------------------------------------ properties
\* the operations that write a collection of an application under its lock
Writers ==
    {"RoleCreate", "RoleUpdate", "RoleDelete", "ScopeCreate", "ScopeUpdate",
     "ScopeDelete", "CertCreate", "CertDelete"}

CreateUpdateOps == {"RoleCreate", "RoleUpdate", "ScopeCreate", "ScopeUpdate", "CertCreate"}

\* p is between its LockByName and its UnlockByName
InCriticalSection(p) ==
    /\ Kind(p) \in Writers
    /\ pc[p] \in {"get", "update", "disable", "remove", "read"}

\* the first client.Get of p returned the parent
Fetched(p) == Len(calls[p]) >= 1 /\ calls[p][1].op = "Get" /\ calls[p][1].out = "ok"

\* the collection that Get returned
FetchedColl(p) == calls[p][1].entries

\* a client.Update of p succeeded
Wrote(p) == \E i \in 1 .. Len(calls[p]) : calls[p][i].op = "Update" /\ calls[p][i].out = "ok"

\* r issued a client.Update carrying the collection coll of application a
WroteTo(r, a, coll) ==
    \E i \in 1 .. Len(calls[r]) :
        /\ calls[r][i].op = "Update"
        /\ calls[r][i].obj = a
        /\ calls[r][i].coll = coll

\* the index, among the calls of p, of the client.Get of its Read handler
ReadIndex(p) == IF Kind(p) \in ReadOps THEN 1 ELSE 3

\* C1: two app-role creates on one application are serialized: they are
\* never both between their fetch and their write-back, and when both have
\* written (and no third operation wrote the app roles of the application)
\* they fetched different collections, one of them fetched the role the
\* other wrote, and the application holds both roles.
C1_RoleCreatesSerialized ==
    \A p \in Procs, q \in Procs :
        (p # q /\ Kind(p) = "RoleCreate" /\ Kind(q) = "RoleCreate" /\ Obj(p) = Obj(q))
        =>
        /\ ~(pc[p] = "update" /\ pc[q] = "update")
        /\ (/\ Wrote(p)
            /\ Wrote(q)
            /\ \A r \in Procs \ {p, q} : ~WroteTo(r, Obj(p), "roles"))
           =>
           /\ FetchedColl(p) # FetchedColl(q)
           /\ Sub(p) \in Ids(FetchedColl(q)) \/ Sub(q) \in Ids(FetchedColl(p))
           /\ {Sub(p), Sub(q)} \subseteq Ids(remote[Obj(p)].roles)

C1_Witness ==
    \E p \in Procs, q \in Procs :
        /\ p # q
        /\ Kind(p) = "RoleCreate" /\ Kind(q) = "RoleCreate"
        /\ Obj(p) = Obj(q)
        /\ Sub(p) # Sub(q)
        /\ pc[p] = "done" /\ pc[q] = "done"
        /\ Wrote(p) /\ Wrote(q)
        /\ Sub(p) \in Ids(FetchedColl(q))
        /\ {Sub(p), Sub(q)} \subseteq Ids(remote[Obj(p)].roles)

\* C2: for each application object ID, at most one of the app-role,
\* OAuth2-scope and certificate create / update / delete operations is
\* between its LockByName and its UnlockByName.
C2_MutualExclusion ==
    \A a \in Apps :
        Cardinality({p \in Procs : InCriticalSection(p) /\ Obj(p) = a}) <= 1

C2_Witness ==
    \E p \in Procs, q \in Procs :
        /\ p # q
        /\ Obj(p) = Obj(q)
        /\ InCriticalSection(p) /\ pc[p] = "update"
        /\ Kind(p) \in RoleOps /\ Kind(q) \in CertOps \cap Writers
        /\ pc[q] = "start"

\* C3: every operation that is about to write the app-role, scope or key
\* collection of an application holds the named lock of that application.
C3_EveryCollectionWriterHoldsLock ==
    \A p \in Procs :
        pc[p] \in {"update", "disable", "remove", "setroles", "setscopes"}
        => Holder(p, Obj(p)) = p

\* C4: a create whose ID occurs in the fetched collection returns the
\* already-exists error, having issued the one Get and no other call (no
\* Update, no second attempt), and leaves the resource ID unset.
C4_CreateExistingFails ==
    \A p \in Procs :
        (IsNewResource(p) /\ Fetched(p) /\ Sub(p) \in Ids(FetchedColl(p)))
        =>
        /\ pc[p] = "done"
        /\ result[p] = Diag("AlreadyExists", Obj(p), Sub(p))
        /\ Len(calls[p]) = 1
        /\ rid[p] = NoId

C4_Witness ==
    \E p \in Procs, q \in Procs :
        /\ Kind(p) = "CertCreate" /\ Kind(q) = "ScopeCreate"
        /\ Fetched(p) /\ Sub(p) \in Ids(FetchedColl(p))
        /\ Fetched(q) /\ Sub(q) \in Ids(FetchedColl(q))
        /\ result[p].kind = "AlreadyExists" /\ result[q].kind = "AlreadyExists"

\* C5: a delete of an app role or scope that is in the fetched parent issues
\* after its Get only Updates, at most two: the first carries the entry
\* disabled, the second, issued only when the first succeeded, carries no
\* entry of that ID; the delete succeeds only with both; and as the second
\* succeeds the parent's collection holds no entry of that ID.
C5_DeleteCalls ==
    \A p \in Procs :
        (Kind(p) \in {"RoleDelete", "ScopeDelete"} /\ Fetched(p) /\ Sub(p) \in Ids(FetchedColl(p)))
        =>
        LET c == calls[p] IN
        /\ Len(c) <= 3
        /\ \A i \in 2 .. Len(c) : c[i].op = "Update"
        /\ Len(c) >= 2 =>
              /\ Ids(c[2].entries) = Ids(c[1].entries)
              /\ \A j \in 1 .. Len(c[2].entries) :
                    c[2].entries[j].id = Sub(p) => ~c[2].entries[j].enabled
        /\ (Len(c) >= 2 /\ c[2].out = "error") =>
              /\ Len(c) = 2
              /\ pc[p] = "done"
              /\ result[p].kind = "DisableError"
        /\ Len(c) = 3 => Sub(p) \notin Ids(c[3].entries)
        /\ (pc[p] = "done" /\ result[p] = Ok) => (Len(c) = 3 /\ c[3].out = "ok")

C5_DeleteDisablesThenRemoves ==
    /\ []C5_DeleteCalls
    /\ [][\A p \in Procs :
            (/\ Kind(p) \in {"RoleDelete", "ScopeDelete"}
             /\ pc[p] = "remove"
             /\ pc'[p] = "done"
             /\ result'[p] = Ok)
            => Sub(p) \notin Ids(remote'[Obj(p)][IF Kind(p) = "RoleDelete" THEN "roles" ELSE "scopes"])]_vars

C5_Witness ==
    \E p \in Procs, q \in Procs :
        /\ Kind(p) = "RoleDelete" /\ Kind(q) = "ScopeDelete"
        /\ Fetched(p) /\ Sub(p) \in Ids(FetchedColl(p))
        /\ Fetched(q) /\ Sub(q) \in Ids(FetchedColl(q))
        /\ pc[p] = "done" /\ result[p] = Ok /\ Len(calls[p]) = 3
        /\ pc[q] = "done" /\ result[q].kind = "DisableError"

C7_UpdateOfMissingEntryClearsId ==
    \A p \in Procs :
        (/\ Kind(p) \in {"RoleUpdate", "ScopeUpdate"}
         /\ Fetched(p)
         /\ Sub(p) \notin Ids(FetchedColl(p)))
        =>
        /\ pc[p] = "done"
        /\ result[p] = Ok
        /\ rid[p] = NoId
        /\ Len(calls[p]) = 1

\* C7, amended: an update of an app role or scope whose entry is not in the
\* fetched parent fails with a not-found error naming the entry and the
\* application, leaves the resource ID as it was and issues no write-back.
C7_UpdateOfMissingEntryFails ==
    \A p \in Procs :
        (/\ Kind(p) \in {"RoleUpdate", "ScopeUpdate"}
         /\ Fetched(p)
         /\ Sub(p) \notin Ids(FetchedColl(p)))
        =>
        /\ pc[p] = "done"
        /\ result[p] = Diag("EntryNotFound", Obj(p), Sub(p))
        /\ rid[p] = ResourceId(Obj(p), Sub(p))
        /\ Len(calls[p]) = 1

C7_Witness ==
    \E p \in Procs, q \in Procs :
        /\ Kind(p) = "RoleUpdate" /\ Kind(q) = "RoleDelete"
        /\ Obj(p) = Obj(q) /\ Sub(p) = Sub(q)
        /\ pc[q] = "done" /\ result[q] = Ok /\ Wrote(q)
        /\ Fetched(p)
        /\ Sub(p) \notin Ids(FetchedColl(p))
        /\ result[p].kind = "EntryNotFound"

\* C8: a sub-resource create, update or delete whose fetch of the parent
\* fails returns an error that names the parent object ID (the not-found
\* error on a 404), having issued that one Get and no other call: no retry
\* and no write-back.
C8_FetchFailureIsFatal ==
    \A p \in Procs :
        (Kind(p) \in Writers /\ Len(calls[p]) >= 1 /\ calls[p][1].out # "ok")
        =>
        /\ pc[p] = "done"
        /\ Len(calls[p]) = 1
        /\ result[p] =
              Diag(IF calls[p][1].out = "notfound" THEN "ParentNotFound" ELSE "RetrieveError",
                   Obj(p), "")

C8_Witness ==
    \E p \in Procs, q \in Procs :
        /\ Kind(p) \in {"RoleDelete", "ScopeDelete", "CertDelete"}
        /\ Kind(q) \in CreateUpdateOps
        /\ Len(calls[p]) = 1 /\ calls[p][1].out = "notfound"
        /\ Len(calls[q]) = 1 /\ calls[q][1].out = "error"
        /\ result[p].kind = "ParentNotFound"
        /\ result[q].kind = "RetrieveError"

\* C9: a Read handler (of an application, a group, a user, an app role, a
\* scope or a certificate, run on its own or at the end of a create or
\* update) whose Get answers 404 clears the resource ID and returns no
\* error; when its Get fails otherwise it returns an error and leaves the
\* resource ID as it was.
C9_ReadNotFoundClearsId ==
    \A p \in Procs :
        (Kind(p) \in ReadOps \cup CreateUpdateOps /\ Len(calls[p]) >= ReadIndex(p))
        =>
        LET c == calls[p][ReadIndex(p)] IN
        /\ c.op = "Get"
        /\ c.out = "notfound" =>
              /\ pc[p] = "done"
              /\ result[p] = Ok
              /\ rid[p] = NoId
              /\ Len(calls[p]) = ReadIndex(p)
        /\ c.out = "error" =>
              /\ pc[p] = "done"
              /\ result[p] = Diag("RetrieveError", Obj(p), "")
              /\ rid[p] = ResourceId(Obj(p), Sub(p))
              /\ Len(calls[p]) = ReadIndex(p)

C9_Witness ==
    \E p \in Procs, q \in Procs :
        /\ Kind(p) \in {"AppRead", "GroupRead", "UserRead"}
        /\ Kind(q) \in {"AppRead", "GroupRead", "UserRead"}
        /\ calls[p] # <<>> /\ calls[p][1].out = "notfound"
        /\ rid[p] = NoId /\ result[p] = Ok
        /\ calls[q] # <<>> /\ calls[q][1].out = "error"
        /\ rid[q] # NoId /\ result[q].kind = "RetrieveError"

\* C10: a Read of an app role, scope or certificate whose parent was fetched
\* and holds no entry of the resource's sub-ID clears the resource ID and
\* returns no error; the Read issues no call but its Get.
C10_ReadOfMissingEntryClearsId ==
    \A p \in Procs :
        (/\ Kind(p) \in {"RoleRead", "ScopeRead", "CertRead"} \cup CreateUpdateOps
         /\ Len(calls[p]) >= ReadIndex(p)
         /\ calls[p][ReadIndex(p)].out = "ok"
         /\ Sub(p) \notin Ids(calls[p][ReadIndex(p)].entries))
        =>
        /\ pc[p] = "done"
        /\ result[p] = Ok
        /\ rid[p] = NoId
        /\ Len(calls[p]) = ReadIndex(p)
        /\ \A i \in ReadIndex(p) .. Len(calls[p]) : calls[p][i].op = "Get"

C10_Witness ==
    \E p \in Procs, q \in Procs :
        /\ Kind(p) = "CertRead" /\ Kind(q) \in {"RoleRead", "ScopeRead"}
        /\ Fetched(p) /\ Sub(p) \notin Ids(FetchedColl(p))
        /\ Fetched(q) /\ Sub(q) \notin Ids(FetchedColl(q))
        /\ rid[p] = NoId /\ rid[q] = NoId
        /\ result[p] = Ok /\ result[q] = Ok
        /\ Len(calls[p]) = 1 /\ Len(calls[q]) = 1

\* ============================================================================
\* The handlers that create and update the parent objects themselves.
\* ============================================================================

\* --------------------------------------------------- group create and update
\* Create: helpers.GroupCheckNameAvailability when prevent_duplicate_names
groupResourceCreate_CheckName(p) ==
    /\ pc[p] = "start"
    /\ req[p].preventDup
    /\ \E out \in NameOutcomes(Obj(p)) :
         /\ Issue(p, NameCall(Obj(p), out))
         /\ \/ /\ out = "error"
               /\ Return(p, Diag("NameCheckError", "", ""))
            \/ /\ out = "duplicate"
               /\ Return(p, Diag("Duplicate", "", ""))
            \/ /\ out = "ok"
               /\ Goto(p, "create")
    /\ UNCHANGED <<remote, locks, req, rid, work>>

\* Create: client.Create with the members and owners of the configuration,
\* then d.SetId with the object ID the directory returned
groupResourceCreate_Create(p) ==
    /\ \/ pc[p] = "create"
       \/ pc[p] = "start" /\ ~req[p].preventDup
    /\ \E out \in CreateOutcomes(Obj(p)) :
         /\ Issue(p, CreateCall(Obj(p), out))
         /\ \/ /\ out = "error"
               /\ Return(p, Diag("CreateError", "", ""))
               /\ UNCHANGED <<remote, rid>>
            \/ /\ out = "ok"
               /\ remote' = [remote EXCEPT ![Obj(p)] =
                                Related(TRUE, req[p].members, req[p].owners)]
               /\ SetId(p, ResourceId(Obj(p), ""))
               /\ Goto(p, "wait")
    /\ UNCHANGED <<locks, req, work>>

\* a group create that fails when its wait found the group
groupResourceCreate_Wait_FoundFails(p) ==
    /\ pc[p] = "wait"
    /\ \E out \in ProbeOutcomes(rid[p].obj) :
         /\ Issue(p, ProbeCall(rid[p].obj, out))
         /\ LET s == WaitForCreationReplication(p, out) IN
            \/ /\ s = "again"
               /\ UNCHANGED <<pc, result>>
            \/ /\ s \in {"found", "error"}
               /\ Return(p, Diag("ReplicationError", rid[p].obj, ""))
            \/ /\ s = "exhausted"
               /\ Return(p, Diag("ReplicationTimeout", rid[p].obj, ""))
    /\ UNCHANGED <<remote, locks, req, rid, work>>

\* Create: helpers.WaitForCreationReplication polling client.Get of the new
\* group, one probe a step
groupResourceCreate_Wait(p) ==
    /\ pc[p] = "wait"
    /\ \E out \in ProbeOutcomes(rid[p].obj) :
         /\ Issue(p, ProbeCall(rid[p].obj, out))
         /\ LET s == WaitForCreationReplication(p, out) IN
            \/ /\ s = "again"
               /\ UNCHANGED <<pc, result>>
            \/ /\ s = "found"
               /\ Goto(p, "read")
            \/ /\ s = "error"
               /\ Return(p, Diag("ReplicationError", rid[p].obj, ""))
            \/ /\ s = "exhausted"
               /\ Return(p, Diag("ReplicationTimeout", rid[p].obj, ""))
    /\ UNCHANGED <<remote, locks, req, rid, work>>

groupResourceCreate(p) ==
    /\ Kind(p) = "GroupCreate"
    /\ \/ groupResourceCreate_CheckName(p)
       \/ groupResourceCreate_Create(p)
       \/ groupResourceCreate_Wait(p)

\* the handler's position once the members block is done
AfterMembers(p) == IF req[p].chOwners THEN "listowners" ELSE "read"

\* the handler's position after its client.Update: each block is reconciled
\* when it is configured and changed (d.GetOkExists, d.HasChange)
AfterGroupUpdate(p) == IF req[p].chMembers THEN "listmembers" ELSE AfterMembers(p)

\* Update: helpers.GroupCheckNameAvailability when display_name changed and
\* prevent_duplicate_names
groupResourceUpdate_CheckName(p) ==
    /\ pc[p] = "start"
    /\ req[p].preventDup
    /\ \E out \in NameOutcomes(rid[p].obj) :
         /\ Issue(p, NameCall(rid[p].obj, out))
         /\ \/ /\ out = "error"
               /\ Return(p, Diag("NameCheckError", "", ""))
            \/ /\ out = "duplicate"
               /\ Return(p, Diag("Duplicate", "", ""))
            \/ /\ out = "ok"
               /\ Goto(p, "update")
    /\ UNCHANGED <<remote, locks, req, rid, work>>

\* a group update that goes on to the relationships when client.Update failed
groupResourceUpdate_Update_ErrorIgnored(p) ==
    /\ \/ pc[p] = "update"
       \/ pc[p] = "start" /\ ~req[p].preventDup
    /\ \E out \in UpdateOutcomes(rid[p].obj) :
         /\ Issue(p, UpdateCall(rid[p].obj, out, "", <<>>))
         /\ Goto(p, AfterGroupUpdate(p))
    /\ UNCHANGED <<remote, locks, req, rid, work>>

\* Update: client.Update with the display name and the description
groupResourceUpdate_Update(p) ==
    /\ \/ pc[p] = "update"
       \/ pc[p] = "start" /\ ~req[p].preventDup
    /\ \E out \in UpdateOutcomes(rid[p].obj) :
         /\ Issue(p, UpdateCall(rid[p].obj, out, "", <<>>))
         /\ \/ /\ out = "error"
               /\ Return(p, Diag("UpdateError", rid[p].obj, ""))
            \/ /\ out = "ok"
               /\ Goto(p, AfterGroupUpdate(p))
    /\ UNCHANGED <<remote, locks, req, rid, work>>

\* Update, members: client.ListMembers, then the two differences; the
\* handler goes on to the first call it has IDs for
groupResourceUpdate_ListMembers(p) ==
    /\ pc[p] = "listmembers"
    /\ \E out \in ListOutcomes(rid[p].obj) :
         LET existingMembers == remote[rid[p].obj].members
             desiredMembers == req[p].members
             membersForRemoval == Difference(existingMembers, desiredMembers)
             membersToAdd == Difference(desiredMembers, existingMembers)
         IN
         /\ Issue(p, RelCall("ListMembers", rid[p].obj, out, "members",
                             IF out = "ok" THEN existingMembers ELSE {}))
         /\ \/ /\ out = "error"
               /\ Return(p, Diag("MembersError", rid[p].obj, ""))
               /\ UNCHANGED work
            \/ /\ out = "ok"
               /\ work' = [work EXCEPT ![p] =
                              [forRemoval |-> membersForRemoval, toAdd |-> membersToAdd]]
               /\ Goto(p, IF membersForRemoval # {} THEN "removemembers"
                          ELSE IF membersToAdd # {} THEN "addmembers"
                          ELSE AfterMembers(p))
    /\ UNCHANGED <<remote, locks, req, rid>>

\* a RemoveMembers after which the update makes no AddMembers
groupResourceUpdate_RemoveMembers_Only(p) ==
    /\ pc[p] = "removemembers"
    /\ \E out \in RelOutcomes(rid[p].obj) :
         /\ Issue(p, RelCall("RemoveMembers", rid[p].obj, out, "members", work[p].forRemoval))
         /\ \/ /\ out = "error"
               /\ Return(p, Diag("RemoveMembersError", rid[p].obj, ""))
               /\ UNCHANGED remote
            \/ /\ out = "ok"
               /\ remote' = [remote EXCEPT ![rid[p].obj].members = @ \ work[p].forRemoval]
               /\ Goto(p, AfterMembers(p))
    /\ UNCHANGED <<locks, req, rid, work>>

\* Update, members: client.RemoveMembers
groupResourceUpdate_RemoveMembers(p) ==
    /\ pc[p] = "removemembers"
    /\ \E out \in RelOutcomes(rid[p].obj) :
         /\ Issue(p, RelCall("RemoveMembers", rid[p].obj, out, "members", work[p].forRemoval))
         /\ \/ /\ out = "error"
               /\ Return(p, Diag("RemoveMembersError", rid[p].obj, ""))
               /\ UNCHANGED remote
            \/ /\ out = "ok"
               /\ remote' = [remote EXCEPT ![rid[p].obj].members = @ \ work[p].forRemoval]
               /\ Goto(p, IF work[p].toAdd # {} THEN "addmembers" ELSE AfterMembers(p))
    /\ UNCHANGED <<locks, req, rid, work>>

\* an AddMembers whose failure the update ignores
groupResourceUpdate_AddMembers_Ignored(p) ==
    /\ pc[p] = "addmembers"
    /\ \E out \in RelOutcomes(rid[p].obj) :
         /\ Issue(p, RelCall("AddMembers", rid[p].obj, out, "members", work[p].toAdd))
         /\ \/ /\ out = "error"
               /\ Goto(p, AfterMembers(p))
               /\ UNCHANGED remote
            \/ /\ out = "ok"
               /\ remote' = [remote EXCEPT ![rid[p].obj].members = @ \cup work[p].toAdd]
               /\ Goto(p, AfterMembers(p))
    /\ UNCHANGED <<locks, req, rid, work>>

\* Update, members: client.AddMembers
groupResourceUpdate_AddMembers(p) ==
    /\ pc[p] = "addmembers"
    /\ \E out \in RelOutcomes(rid[p].obj) :
         /\ Issue(p, RelCall("AddMembers", rid[p].obj, out, "members", work[p].toAdd))
         /\ \/ /\ out = "error"
               /\ Return(p, Diag("AddMembersError", rid[p].obj, ""))
               /\ UNCHANGED remote
            \/ /\ out = "ok"
               /\ remote' = [remote EXCEPT ![rid[p].obj].members = @ \cup work[p].toAdd]
               /\ Goto(p, AfterMembers(p))
    /\ UNCHANGED <<locks, req, rid, work>>

\* a List of the owners that takes the two differences the other way round
groupResourceUpdate_ListOwners_Swapped(p) ==
    /\ pc[p] = "listowners"
    /\ \E out \in ListOutcomes(rid[p].obj) :
         LET existingOwners == remote[rid[p].obj].owners
             desiredOwners == req[p].owners
             ownersForRemoval == Difference(desiredOwners, existingOwners)
             ownersToAdd == Difference(existingOwners, desiredOwners)
         IN
         /\ Issue(p, RelCall("ListOwners", rid[p].obj, out, "owners",
                             IF out = "ok" THEN existingOwners ELSE {}))
         /\ \/ /\ out = "error"
               /\ Return(p, Diag("OwnersError", rid[p].obj, ""))
               /\ UNCHANGED work
            \/ /\ out = "ok"
               /\ work' = [work EXCEPT ![p] =
                              [forRemoval |-> ownersForRemoval, toAdd |-> ownersToAdd]]
               /\ Goto(p, IF ownersToAdd # {} THEN "addowners"
                          ELSE IF ownersForRemoval # {} THEN "removeowners"
                          ELSE "read")
    /\ UNCHANGED <<remote, locks, req, rid>>

\* Update, owners: client.ListOwners, then the two differences
groupResourceUpdate_ListOwners(p) ==
    /\ pc[p] = "listowners"
    /\ \E out \in ListOutcomes(rid[p].obj) :
         LET existingOwners == remote[rid[p].obj].owners
             desiredOwners == req[p].owners
             ownersForRemoval == Difference(existingOwners, desiredOwners)
             ownersToAdd == Difference(desiredOwners, existingOwners)
         IN
         /\ Issue(p, RelCall("ListOwners", rid[p].obj, out, "owners",
                             IF out = "ok" THEN existingOwners ELSE {}))
         /\ \/ /\ out = "error"
               /\ Return(p, Diag("OwnersError", rid[p].obj, ""))
               /\ UNCHANGED work
            \/ /\ out = "ok"
               /\ work' = [work EXCEPT ![p] =
                              [forRemoval |-> ownersForRemoval, toAdd |-> ownersToAdd]]
               /\ Goto(p, IF ownersToAdd # {} THEN "addowners"
                          ELSE IF ownersForRemoval # {} THEN "removeowners"
                          ELSE "read")
    /\ UNCHANGED <<remote, locks, req, rid>>

\* Update, owners: client.AddOwners, which comes before the removal
groupResourceUpdate_AddOwners(p) ==
    /\ pc[p] = "addowners"
    /\ \E out \in RelOutcomes(rid[p].obj) :
         /\ Issue(p, RelCall("AddOwners", rid[p].obj, out, "owners", work[p].toAdd))
         /\ \/ /\ out = "error"
               /\ Return(p, Diag("AddOwnersError", rid[p].obj, ""))
               /\ UNCHANGED remote
            \/ /\ out = "ok"
               /\ remote' = [remote EXCEPT ![rid[p].obj].owners = @ \cup work[p].toAdd]
               /\ Goto(p, IF work[p].forRemoval # {} THEN "removeowners" ELSE "read")
    /\ UNCHANGED <<locks, req, rid, work>>

\* Update, owners: client.RemoveOwners
groupResourceUpdate_RemoveOwners(p) ==
    /\ pc[p] = "removeowners"
    /\ \E out \in RelOutcomes(rid[p].obj) :
         /\ Issue(p, RelCall("RemoveOwners", rid[p].obj, out, "owners", work[p].forRemoval))
         /\ \/ /\ out = "error"
               /\ Return(p, Diag("RemoveOwnersError", rid[p].obj, ""))
               /\ UNCHANGED remote
            \/ /\ out = "ok"
               /\ remote' = [remote EXCEPT ![rid[p].obj].owners = @ \ work[p].forRemoval]
               /\ Goto(p, "read")
    /\ UNCHANGED <<locks, req, rid, work>>

groupResourceUpdate(p) ==
    /\ Kind(p) = "GroupUpdate"
    /\ \/ groupResourceUpdate_CheckName(p)
       \/ groupResourceUpdate_Update(p)
       \/ groupResourceUpdate_ListMembers(p)
       \/ groupResourceUpdate_RemoveMembers(p)
       \/ groupResourceUpdate_AddMembers(p)
       \/ groupResourceUpdate_ListOwners(p)
       \/ groupResourceUpdate_AddOwners(p)
       \/ groupResourceUpdate_RemoveOwners(p)

\* The update of a group that returned an error is applied again with the
\* same configuration (the next reconciliation pass).
groupResourceUpdate_NextPass(p) ==
    /\ Kind(p) = "GroupUpdate"
    /\ pc[p] = "done"
    /\ result[p] # Ok
    /\ Cardinality({i \in 1 .. Len(calls[p]) : calls[p][i].op = "Pass"}) + 1 < MaxPasses
    /\ Issue(p, PassMark(rid[p].obj))
    /\ pc' = [pc EXCEPT ![p] = "start"]
    /\ result' = [result EXCEPT ![p] = Pending]
    /\ UNCHANGED <<remote, locks, req, rid, work>>

\* --------------------------------------------------------------- user create
\* Create: client.Create, then d.SetId with the object ID returned
userResourceCreate_Create(p) ==
    /\ pc[p] = "start"
    /\ \E out \in CreateOutcomes(Obj(p)) :
         /\ Issue(p, CreateCall(Obj(p), out))
         /\ \/ /\ out = "error"
               /\ Return(p, Diag("CreateError", "", ""))
               /\ UNCHANGED <<remote, rid>>
            \/ /\ out = "ok"
               /\ remote' = [remote EXCEPT ![Obj(p)] = Related(TRUE, {}, {})]
               /\ SetId(p, ResourceId(Obj(p), ""))
               /\ Goto(p, "wait")
    /\ UNCHANGED <<locks, req, work>>

\* a user create that goes on to its Read when the wait gave up
userResourceCreate_Wait_Swallowed(p) ==
    /\ pc[p] = "wait"
    /\ \E out \in ProbeOutcomes(rid[p].obj) :
         /\ Issue(p, ProbeCall(rid[p].obj, out))
         /\ LET s == WaitForCreationReplication(p, out) IN
            \/ /\ s = "again"
               /\ UNCHANGED <<pc, result>>
            \/ /\ s \in {"found", "exhausted"}
               /\ Goto(p, "read")
            \/ /\ s = "error"
               /\ Return(p, Diag("ReplicationError", rid[p].obj, ""))
    /\ UNCHANGED <<remote, locks, req, rid, work>>

\* Create: helpers.WaitForCreationReplication polling client.Get of the new
\* user, one probe a step
userResourceCreate_Wait(p) ==
    /\ pc[p] = "wait"
    /\ \E out \in ProbeOutcomes(rid[p].obj) :
         /\ Issue(p, ProbeCall(rid[p].obj, out))
         /\ LET s == WaitForCreationReplication(p, out) IN
            \/ /\ s = "again"
               /\ UNCHANGED <<pc, result>>
            \/ /\ s = "found"
               /\ Goto(p, "read")
            \/ /\ s = "error"
               /\ Return(p, Diag("ReplicationError", rid[p].obj, ""))
            \/ /\ s = "exhausted"
               /\ Return(p, Diag("ReplicationTimeout", rid[p].obj, ""))
    /\ UNCHANGED <<remote, locks, req, rid, work>>

userResourceCreate(p) ==
    /\ Kind(p) = "UserCreate"
    /\ \/ userResourceCreate_Create(p)
       \/ userResourceCreate_Wait(p)

\* --------------------------------------- the system of the parent handlers
\* The configuration of a create or update of a parent object: the name
\* check (prevent_duplicate_names), the members and owners and whether each
\* changed, and for an application its app_role and scope blocks.
ParentReq(kind, obj, preventDup, chMembers, members, chOwners, owners, roles, scopes) ==
    [Req(kind, obj, "", TRUE, FALSE, roles, FALSE, scopes) EXCEPT
        !.preventDup = preventDup,
        !.chMembers = chMembers, !.members = members,
        !.chOwners = chOwners, !.owners = owners]

\* two app roles of one value, which the validation rejects
DuplicateRoles == <<ValuedEntry("x", TRUE, "v"), ValuedEntry("y", TRUE, "v")>>

ParentReqs ==
    {ParentReq("GroupCreate", "g2", d, FALSE, {"A"}, FALSE, {"B"}, <<>>, <<>>) : d \in BOOLEAN}
    \cup {ParentReq("UserCreate", "u2", FALSE, FALSE, {}, FALSE, {}, <<>>, <<>>)}
    \cup {ParentReq("AppCreate", "a2", FALSE, FALSE, {}, FALSE, {}, <<>>, <<>>),
          ParentReq("AppCreate", "a2", TRUE, FALSE, {}, FALSE, {"A"}, <<>>, <<>>)}
    \cup {ParentReq("AppCreate", "a2", d, FALSE, {}, FALSE, {}, DuplicateRoles, <<>>) :
            d \in BOOLEAN}
    \cup {ParentReq("GroupUpdate", "g1", FALSE, TRUE, {"B", "C", "D"}, FALSE, {}, <<>>, <<>>),
          ParentReq("GroupUpdate", "g1", TRUE, FALSE, {}, FALSE, {}, <<>>, <<>>)}

\* The updates of one relationship of the group "g1" to each set of
\* principals, and two of both relationships; such an update runs next to
\* user creates only.
WideReqs ==
    {ParentReq("GroupUpdate", "g1", FALSE, TRUE, {"B", "C", "D"}, TRUE, o, <<>>, <<>>) :
        o \in {{"A"}, {"B", "C", "D"}}}
    \cup
    {ParentReq("GroupUpdate", "g1", FALSE, TRUE, m, FALSE, {}, <<>>, <<>>) :
        m \in SUBSET Principals}
    \cup {ParentReq("GroupUpdate", "g1", FALSE, FALSE, {}, TRUE, o, <<>>, <<>>) :
        o \in SUBSET Principals}

ParentKindOrder == <<"GroupCreate", "UserCreate", "AppCreate", "GroupUpdate">>

\* a number for a set of principals
Code(s) ==
    (IF "A" \in s THEN 1 ELSE 0) + (IF "B" \in s THEN 2 ELSE 0)
    + (IF "C" \in s THEN 4 ELSE 0) + (IF "D" \in s THEN 8 ELSE 0)

\* Operations are interchangeable: InitParents numbers them in a fixed
\* order of their configurations.
ParentRank(r) ==
    (CHOOSE i \in 1 .. Len(ParentKindOrder) : ParentKindOrder[i] = r.kind) * 2048
    + (IF r.preventDup THEN 1024 ELSE 0)
    + (IF r.chMembers THEN 512 ELSE 0)
    + (IF r.roles = <<>> THEN 0 ELSE 256)
    + Code(r.members) * 16
    + Code(r.owners)

\* The directory at the start: the group "g1" exists, with three members
\* and an owner or with none; "g2", "u2" and "a2" are still to be created.
InitParentRemotes ==
    {[o \in Objects |->
        IF o \in Apps THEN Object(o = "a1", <<>>, <<>>, <<>>)
        ELSE IF o = "g1" THEN Related(TRUE, g[1], g[2])
        ELSE Related(o = "u1", {}, {})] :
            g \in {<<{"A", "B", "C"}, {"A"}>>, <<{}, {}>>}}

InitParents ==
    /\ remote \in InitParentRemotes
    /\ locks = FreeLocks
    /\ req \in [Procs -> ParentReqs \cup WideReqs]
    /\ \A p \in Procs, q \in Procs : p < q => ParentRank(req[p]) <= ParentRank(req[q])
    /\ \A p \in Procs, q \in Procs :
          (p # q /\ req[p] \notin ParentReqs) => req[q].kind = "UserCreate"
    /\ pc = [p \in Procs |-> "start"]
    /\ rid = [p \in Procs |->
                IF req[p].kind = "GroupUpdate"
                THEN ResourceId(req[p].obj, "")
                ELSE NoId]
    /\ work = [p \in Procs |-> <<>>]
    /\ result = [p \in Procs |-> Pending]
    /\ calls = [p \in Procs |-> <<>>]

NextParents ==
    \E p \in Procs :
        \/ groupResourceCreate(p)
        \/ groupResourceUpdate(p)
        \/ groupResourceUpdate_NextPass(p)
        \/ groupResourceRead(p)
        \/ userResourceCreate(p)
        \/ userResourceRead(p)
        \/ applicationResourceCreate(p)
        \/ applicationResourceRead(p)

SpecParents == InitParents /\ [][NextParents]_vars

\* every step that can be taken is taken in the end
FairSpecParents == SpecParents /\ WF_vars(NextParents)

\* ------------------------------------------- the system of valued entries
\* The configuration of an operation on an application whose app roles and
\* scopes carry a value: for a role or scope the value of the entry, for the
\* application its two blocks, which of them changed, and the name check.
AppReq(kind, obj, sub, value, preventDup, chRoles, roles, chScopes, scopes) ==
    [Req(kind, obj, sub, TRUE, chRoles, roles, chScopes, scopes) EXCEPT
        !.value = value, !.preventDup = preventDup]

\* blocks of the configuration: an app role and a scope of two values, of
\* one value, and two app roles of one value
RoleV == <<ValuedEntry("x", TRUE, "v")>>
ScopeV == <<ValuedEntry("x", TRUE, "v")>>
ScopeW == <<ValuedEntry("x", TRUE, "w")>>

\* The operations of this system, in the order InitApps numbers them: the
\* creates and updates of an application with valid and with duplicate
\* values, and those of an app role and of a scope with a value that the
\* application "a1" holds or does not hold.
AppReqs ==
    <<AppReq("AppCreate", "a2", "", "", FALSE, FALSE, RoleV, FALSE, ScopeW),
      AppReq("AppCreate", "a2", "", "", FALSE, FALSE, RoleV, FALSE, ScopeV),
      AppReq("AppCreate", "a2", "", "", TRUE, FALSE, RoleV, FALSE, ScopeV),
      AppReq("AppUpdate", "a1", "", "", FALSE, TRUE, RoleV, TRUE, ScopeW),
      AppReq("AppUpdate", "a1", "", "", FALSE, TRUE, RoleV, TRUE, ScopeV),
      AppReq("AppUpdate", "a1", "", "", TRUE, FALSE, RoleV, TRUE, ScopeV),
      AppReq("AppUpdate", "a1", "", "", FALSE, TRUE, DuplicateRoles, FALSE, ScopeW),
      AppReq("AppUpdate", "a1", "", "", FALSE, TRUE, <<ValuedEntry("x", TRUE, "w")>>, FALSE, ScopeW),
      AppReq("RoleCreate", "a1", "y", "n", FALSE, FALSE, <<>>, FALSE, <<>>),
      AppReq("RoleCreate", "a1", "y", "w", FALSE, FALSE, <<>>, FALSE, <<>>),
      AppReq("RoleUpdate", "a1", "x", "w", FALSE, FALSE, <<>>, FALSE, <<>>),
      AppReq("ScopeCreate", "a1", "y", "v", FALSE, FALSE, <<>>, FALSE, <<>>),
      AppReq("ScopeUpdate", "a1", "x", "v", FALSE, FALSE, <<>>, FALSE, <<>>),
      AppReq("ScopeUpdate", "a1", "x", "n", FALSE, FALSE, <<>>, FALSE, <<>>)>>

\* The directory at the start: the application "a1" has the app role "x" of
\* value "v" and the scope "x" of value "w"; "a2" is still to be created.
InitAppRemotes ==
    [o \in Objects |->
        IF o = "a1" THEN Object(TRUE, RoleV, ScopeW, <<>>)
        ELSE Object(o \in {"g1", "u1"}, <<>>, <<>>, <<>>)]

InitApps ==
    /\ remote = InitAppRemotes
    /\ locks = FreeLocks
    /\ \E f \in [Procs -> 1 .. Len(AppReqs)] :
          /\ \A p \in Procs, q \in Procs : p < q => f[p] <= f[q]
          /\ req = [p \in Procs |-> AppReqs[f[p]]]
    /\ pc = [p \in Procs |-> "start"]
    /\ rid = [p \in Procs |->
                IF req[p].kind \in {"AppCreate", "RoleCreate", "ScopeCreate"}
                THEN NoId
                ELSE ResourceId(req[p].obj, req[p].sub)]
    /\ work = [p \in Procs |-> <<>>]
    /\ result = [p \in Procs |-> Pending]
    /\ calls = [p \in Procs |-> <<>>]

NextApps ==
    \E p \in Procs :
        \/ applicationResourceCreate(p)
        \/ applicationResourceUpdate(p)
        \/ applicationResourceRead(p)
        \/ applicationAppRoleResourceCreateUpdate(p)
        \/ applicationOAuth2PermissionScopeResourceCreateUpdate(p)

SpecApps == InitApps /\ [][NextApps]_vars

\* ------------------------------------ the system of two provider processes
\* The operations of Spec, each run by a provider process of its own: the
\* first by "tf1", the others by "tf2".
InitCross ==
    /\ remote \in InitRemotes
    /\ locks = FreeLocks
    /\ \E r \in [Procs -> Reqs] :
          /\ \A p \in Procs, q \in Procs : p < q => Rank(r[p]) <= Rank(r[q])
          /\ req = [p \in Procs |->
                      [r[p] EXCEPT !.provider = IF p = 1 THEN "tf1" ELSE "tf2"]]
    /\ pc = [p \in Procs |-> IF req[p].kind \in ReadOps THEN "read" ELSE "start"]
    /\ rid = [p \in Procs |->
                IF req[p].kind \in {"RoleCreate", "ScopeCreate", "CertCreate"}
                THEN NoId
                ELSE ResourceId(req[p].obj, req[p].sub)]
    /\ work = [p \in Procs |-> <<>>]
    /\ result = [p \in Procs |-> Pending]
    /\ calls = [p \in Procs |-> <<>>]

SpecCross == InitCross /\ [][Next]_vars

\* ------------------------------------------------- the deletes of parents
DeleteCall(obj, out) ==
    [op |-> "Delete", obj |-> obj, out |-> out, coll |-> "", entries |-> <<>>]

\* the outcomes of client.Delete: an object that is absent cannot be deleted
DeleteOutcomes(obj) == IF remote[obj].exists THEN {"ok", "error"} ELSE {"error"}

\* the directory after a successful DELETE
Deleted(obj) == [remote EXCEPT ![obj].exists = FALSE]

\* Delete of an application: client.Get of d.Id(), whose error ends the
\* handler, with a message of its own for a 404
applicationResourceDelete_Get(p) ==
    /\ pc[p] = "start"
    /\ \E out \in GetOutcomes(rid[p].obj) :
         /\ Issue(p, GetCall(rid[p].obj, out, "", <<>>))
         /\ \/ /\ out = "notfound"
               /\ Return(p, Diag("NotFound", rid[p].obj, ""))
            \/ /\ out = "error"
               /\ Return(p, Diag("RetrieveError", rid[p].obj, ""))
            \/ /\ out = "ok"
               /\ Goto(p, "delete")
    /\ UNCHANGED <<remote, locks, req, rid, work>>

\* Delete of an application: client.Delete of d.Id()
applicationResourceDelete_Delete(p) ==
    /\ pc[p] = "delete"
    /\ \E out \in DeleteOutcomes(rid[p].obj) :
         /\ Issue(p, DeleteCall(rid[p].obj, out))
         /\ \/ /\ out = "error"
               /\ Return(p, Diag("DeleteError", rid[p].obj, ""))
               /\ UNCHANGED remote
            \/ /\ out = "ok"
               /\ remote' = Deleted(rid[p].obj)
               /\ Return(p, Ok)
    /\ UNCHANGED <<locks, req, rid, work>>

applicationResourceDelete(p) ==
    /\ Kind(p) = "AppDelete"
    /\ \/ applicationResourceDelete_Get(p)
       \/ applicationResourceDelete_Delete(p)

\* a group delete that takes a group that is gone for deleted
groupResourceDelete_Get_Lenient(p) ==
    /\ pc[p] = "start"
    /\ \E out \in GetOutcomes(rid[p].obj) :
         /\ Issue(p, GetCall(rid[p].obj, out, "", <<>>))
         /\ \/ /\ out = "notfound"
               /\ Return(p, Ok)
            \/ /\ out = "error"
               /\ Return(p, Diag("RetrieveError", rid[p].obj, ""))
            \/ /\ out = "ok"
               /\ Goto(p, "delete")
    /\ UNCHANGED <<remote, locks, req, rid, work>>

\* Delete of a group: client.Get of d.Id()
groupResourceDelete_Get(p) ==
    /\ pc[p] = "start"
    /\ \E out \in GetOutcomes(rid[p].obj) :
         /\ Issue(p, GetCall(rid[p].obj, out, "", <<>>))
         /\ \/ /\ out = "notfound"
               /\ Return(p, Diag("NotFound", rid[p].obj, ""))
            \/ /\ out = "error"
               /\ Return(p, Diag("RetrieveError", rid[p].obj, ""))
            \/ /\ out = "ok"
               /\ Goto(p, "delete")
    /\ UNCHANGED <<remote, locks, req, rid, work>>

\* Delete of a group: client.Delete of d.Id()
groupResourceDelete_Delete(p) ==
    /\ pc[p] = "delete"
    /\ \E out \in DeleteOutcomes(rid[p].obj) :
         /\ Issue(p, DeleteCall(rid[p].obj, out))
         /\ \/ /\ out = "error"
               /\ Return(p, Diag("DeleteError", rid[p].obj, ""))
               /\ UNCHANGED remote
            \/ /\ out = "ok"
               /\ remote' = Deleted(rid[p].obj)
               /\ Return(p, Ok)
    /\ UNCHANGED <<locks, req, rid, work>>

groupResourceDelete(p) ==
    /\ Kind(p) = "GroupDelete"
    /\ \/ groupResourceDelete_Get(p)
       \/ groupResourceDelete_Delete(p)

\* Delete of a user: client.Get of d.Id()
userResourceDelete_Get(p) ==
    /\ pc[p] = "start"
    /\ \E out \in GetOutcomes(rid[p].obj) :
         /\ Issue(p, GetCall(rid[p].obj, out, "", <<>>))
         /\ \/ /\ out = "notfound"
               /\ Return(p, Diag("NotFound", rid[p].obj, ""))
            \/ /\ out = "error"
               /\ Return(p, Diag("RetrieveError", rid[p].obj, ""))
            \/ /\ out = "ok"
               /\ Goto(p, "delete")
    /\ UNCHANGED <<remote, locks, req, rid, work>>

\* Delete of a user: client.Delete of d.Id()
userResourceDelete_Delete(p) ==
    /\ pc[p] = "delete"
    /\ \E out \in DeleteOutcomes(rid[p].obj) :
         /\ Issue(p, DeleteCall(rid[p].obj, out))
         /\ \/ /\ out = "error"
               /\ Return(p, Diag("DeleteError", rid[p].obj, ""))
               /\ UNCHANGED remote
            \/ /\ out = "ok"
               /\ remote' = Deleted(rid[p].obj)
               /\ Return(p, Ok)
    /\ UNCHANGED <<locks, req, rid, work>>

userResourceDelete(p) ==
    /\ Kind(p) = "UserDelete"
    /\ \/ userResourceDelete_Get(p)
       \/ userResourceDelete_Delete(p)

\* The operations of this system, in the order InitDeletes numbers them:
\* the delete of each parent that exists and of each that does not, and the
\* read of each parent that exists.
DeleteReqs ==
    <<Req("AppDelete", "a1", "", TRUE, FALSE, <<>>, FALSE, <<>>),
      Req("AppDelete", "a2", "", TRUE, FALSE, <<>>, FALSE, <<>>),
      Req("GroupDelete", "g1", "", TRUE, FALSE, <<>>, FALSE, <<>>),
      Req("GroupDelete", "g2", "", TRUE, FALSE, <<>>, FALSE, <<>>),
      Req("UserDelete", "u1", "", TRUE, FALSE, <<>>, FALSE, <<>>),
      Req("UserDelete", "u2", "", TRUE, FALSE, <<>>, FALSE, <<>>),
      Req("AppRead", "a1", "", TRUE, FALSE, <<>>, FALSE, <<>>),
      Req("GroupRead", "g1", "", TRUE, FALSE, <<>>, FALSE, <<>>),
      Req("UserRead", "u1", "", TRUE, FALSE, <<>>, FALSE, <<>>)>>

InitDeletes ==
    /\ remote \in InitRemotes
    /\ locks = FreeLocks
    /\ \E f \in [Procs -> 1 .. Len(DeleteReqs)] :
          /\ \A p \in Procs, q \in Procs : p < q => f[p] <= f[q]
          /\ req = [p \in Procs |-> DeleteReqs[f[p]]]
    /\ pc = [p \in Procs |-> IF req[p].kind \in ReadOps THEN "read" ELSE "start"]
    /\ rid = [p \in Procs |-> ResourceId(req[p].obj, "")]
    /\ work = [p \in Procs |-> <<>>]
    /\ result = [p \in Procs |-> Pending]
    /\ calls = [p \in Procs |-> <<>>]

NextDeletes ==
    \E p \in Procs :
        \/ applicationResourceDelete(p)
        \/ groupResourceDelete(p)
        \/ userResourceDelete(p)
        \/ applicationResourceRead(p)
        \/ groupResourceRead(p)
        \/ userResourceRead(p)

SpecDeletes == InitDeletes /\ [][NextDeletes]_vars

WaitingCreates == {"GroupCreate", "UserCreate"}

\* the outcomes of the probes the waiter of p has made
ProbeOuts(p) == [i \in 1 .. Len(Probes(p)) |-> Probes(p)[i].out]

\* p has called its Read handler: it is in it, or the call that follows its
\* probes is in its log
ReachedRead(p) ==
    \/ pc[p] \in {"read", "owners", "members"}
    \/ \E i \in 1 .. Len(calls[p]) : calls[p][i].op = "Get" /\ calls[p][i].coll = ""

\* C12: when the last probe of the replication waiter of a group or user
\* create succeeded, after not-found answers only and within the retry
\* budget, the create goes on to its Read and does not fail on the wait;
\* and the waiter gives up on not-found answers only when the budget is spent.
C12_WaiterSucceedsAfterNotFound ==
    \A p \in Procs :
        (Kind(p) \in WaitingCreates /\ Probes(p) # <<>>)
        =>
        LET outs == ProbeOuts(p)
            n == Len(outs)
        IN
        /\ outs[n] = "ok" =>
              /\ \A i \in 1 .. n - 1 : outs[i] = "notfound"
              /\ n <= RetryBudget
              /\ ReachedRead(p)
              /\ result[p].kind \notin {"ReplicationTimeout", "ReplicationError"}
        /\ (outs[n] = "notfound" /\ n < RetryBudget) =>
              /\ pc[p] = "wait"
              /\ result[p] = Pending

C12_Witness ==
    \E p \in Procs, q \in Procs :
        /\ Kind(p) = "GroupCreate" /\ Kind(q) = "UserCreate"
        /\ ProbeOuts(p) = <<"notfound", "notfound", "ok">>
        /\ ProbeOuts(q) = <<"notfound", "ok">>
        /\ pc[p] = "done" /\ result[p] = Ok /\ rid[p] = ResourceId(Obj(p), "")
        /\ pc[q] = "done" /\ result[q] = Ok /\ rid[q] = ResourceId(Obj(q), "")

\* the waiter of a create makes at most RetryBudget probes, and a create
\* whose probes all answered not-found has returned an error that names the
\* object
C13_ProbesBounded ==
    \A p \in Procs :
        Kind(p) \in WaitingCreates
        =>
        /\ Len(Probes(p)) <= RetryBudget
        /\ (Len(Probes(p)) = RetryBudget /\ \A i \in 1 .. RetryBudget : ProbeOuts(p)[i] = "notfound")
           =>
           /\ pc[p] = "done"
           /\ result[p] = Diag("ReplicationTimeout", Obj(p), "")
           /\ ~ReachedRead(p)

\* C13: the replication waiter always terminates: it makes a bounded number
\* of probes, a create whose probes all answer not-found fails with an
\* error naming the object ID, and no create stays in the wait for ever.
C13_WaiterTerminates ==
    /\ []C13_ProbesBounded
    /\ \A p \in Procs : (pc[p] = "wait") ~> (pc[p] # "wait")

C13_Witness ==
    \E p \in Procs, q \in Procs :
        /\ Kind(p) = "GroupCreate" /\ Kind(q) = "UserCreate"
        /\ ProbeOuts(p) = [i \in 1 .. RetryBudget |-> "notfound"]
        /\ ProbeOuts(q) = [i \in 1 .. RetryBudget |-> "notfound"]
        /\ result[p] = Diag("ReplicationTimeout", "g2", "")
        /\ result[q] = Diag("ReplicationTimeout", "u2", "")
        /\ Len(calls[q]) = 1 + RetryBudget

\* C14: a create of a parent object (application, group, user) whose
\* client.Create succeeded and that has called its Read has invoked the
\* replication waiter before.
C14_EveryParentCreateWaits ==
    \A p \in Procs :
        (/\ Kind(p) \in {"AppCreate", "GroupCreate", "UserCreate"}
         /\ \E i \in 1 .. Len(calls[p]) : calls[p][i].op = "Create" /\ calls[p][i].out = "ok"
         /\ ReachedRead(p))
        => Probes(p) # <<>>

\* the calls that change a relationship of a group
RelWrites == {"RemoveMembers", "AddMembers", "AddOwners", "RemoveOwners"}

\* a planned relationship call
Planned(op, ids) == [op |-> op, ids |-> ids]

\* The calls in the log of p after the List at position i are the planned
\* ones, in their order, each with its IDs and only if it has any, for as
\* long as the calls succeed; no other relationship write follows them.
DiffCallsFollow(p, i, first, second) ==
    LET log == calls[p]
        n == Len(log)
        expected == (IF first.ids # {} THEN <<first>> ELSE <<>>)
                    \o (IF second.ids # {} THEN <<second>> ELSE <<>>)
        m == Len(expected)
        reached(k) == i + k <= n /\ \A j \in 1 .. k - 1 : log[i + j].out = "ok"
    IN
    /\ \A k \in 1 .. m :
          /\ reached(k) =>
                /\ log[i + k].op = expected[k].op
                /\ log[i + k].entries = expected[k].ids
          /\ (i + k - 1 = n /\ \A j \in 1 .. k - 1 : log[i + j].out = "ok") =>
                pc[p] \in {"removemembers", "addmembers", "addowners", "removeowners"}
    /\ reached(m + 1) => log[i + m + 1].op \notin RelWrites

\* (the Lists of the update carry the relationship they list; those of the
\* Read that follows carry none)
\* C15: the group update adds the desired principals that the List did not
\* return and removes the returned ones that are not desired, for members
\* and for owners: applying both to the returned set gives the desired set,
\* the two are disjoint, each call is made with exactly its difference and
\* only when that is not empty, and no relationship write is made without
\* its List.
C15_SetDifference ==
    \A p \in Procs :
        Kind(p) = "GroupUpdate"
        =>
        \A i \in 1 .. Len(calls[p]) :
            LET c == calls[p][i] IN
            /\ (c.op \in {"ListMembers", "ListOwners"} /\ c.coll # "" /\ c.out = "ok") =>
                  LET desired == IF c.op = "ListMembers" THEN req[p].members
                                 ELSE req[p].owners
                      add == desired \ c.entries
                      rem == c.entries \ desired
                  IN
                  /\ (c.entries \cup add) \ rem = desired
                  /\ add \cap rem = {}
                  /\ IF c.op = "ListMembers"
                     THEN DiffCallsFollow(p, i, Planned("RemoveMembers", rem),
                                          Planned("AddMembers", add))
                     ELSE DiffCallsFollow(p, i, Planned("AddOwners", add),
                                          Planned("RemoveOwners", rem))
            /\ c.op \in RelWrites =>
                  /\ i > 1
                  /\ c.entries # {}
                  /\ \/ calls[p][i - 1].op \in {"ListMembers", "ListOwners"}
                     \/ /\ i > 2
                        /\ calls[p][i - 1].op \in RelWrites
                        /\ calls[p][i - 2].op \in {"ListMembers", "ListOwners"}
                  /\ calls[p][i - 1].coll = c.coll
                  /\ calls[p][i - 1].out = "ok"

C15_Witness ==
    \E p \in Procs :
        /\ Kind(p) = "GroupUpdate"
        /\ req[p].members = {"B", "C", "D"}
        /\ req[p].owners = {"B", "C", "D"}
        /\ pc[p] = "done" /\ result[p] = Ok
        /\ \E i \in 1 .. Len(calls[p]) - 5 :
              /\ calls[p][i] = RelCall("ListMembers", "g1", "ok", "members", {"A", "B", "C"})
              /\ calls[p][i + 1] = RelCall("RemoveMembers", "g1", "ok", "members", {"A"})
              /\ calls[p][i + 2] = RelCall("AddMembers", "g1", "ok", "members", {"D"})
              /\ calls[p][i + 3] = RelCall("ListOwners", "g1", "ok", "owners", {"A"})
              /\ calls[p][i + 4] = RelCall("AddOwners", "g1", "ok", "owners", {"B", "C", "D"})
              /\ calls[p][i + 5] = RelCall("RemoveOwners", "g1", "ok", "owners", {"A"})
        /\ remote["g1"].members = {"B", "C", "D"}
        /\ remote["g1"].owners = {"B", "C", "D"}

\* a relationship write of p at position i of its log failed
FailedWrite(p, i) == calls[p][i].op \in RelWrites /\ calls[p][i].out = "error"

\* the step in which a relationship write of p fails leaves the directory as
\* it is: what an earlier call of the handler applied stays applied
FailedWriteKeepsRemote ==
    \A p \in Procs :
        (/\ Len(calls'[p]) = Len(calls[p]) + 1
         /\ calls'[p][Len(calls'[p])].op \in RelWrites
         /\ calls'[p][Len(calls'[p])].out = "error")
        => remote' = remote

\* a failed relationship write ends the pass of the update: it is the last
\* call of the pass, and the handler has returned the error of that call for
\* the group
FailureEndsPass ==
    \A p \in Procs :
        Kind(p) = "GroupUpdate"
        =>
        \A i \in 1 .. Len(calls[p]) :
            FailedWrite(p, i) =>
                /\ i < Len(calls[p]) => calls[p][i + 1].op = "Pass"
                /\ i = Len(calls[p]) =>
                      /\ pc[p] = "done"
                      /\ result[p] = Diag(calls[p][i].op \o "Error", calls[p][i].obj, "")

\* C16: when a relationship write of a group update fails, the update
\* returns that error at once: no later call of the handler is attempted,
\* none that would undo an earlier successful one either, and the failing
\* step leaves the directory unchanged.
C16_FailureStopsWithoutRollback ==
    /\ []FailureEndsPass
    /\ [][FailedWriteKeepsRemote]_vars

C16_Witness ==
    \E p \in Procs :
        /\ Kind(p) = "GroupUpdate"
        /\ Len(calls[p]) = 4
        /\ calls[p][2] = RelCall("ListMembers", "g1", "ok", "members", {"A", "B", "C"})
        /\ calls[p][3] = RelCall("RemoveMembers", "g1", "ok", "members", {"A"})
        /\ calls[p][4] = RelCall("AddMembers", "g1", "error", "members", {"D"})
        /\ pc[p] = "done"
        /\ result[p] = Diag("AddMembersError", "g1", "")
        /\ remote["g1"].members = {"B", "C"}

\* no operation but p has changed the group of p
Undisturbed(p) ==
    \A q \in Procs \ {p} :
        \A i \in 1 .. Len(calls[q]) :
            (calls[q][i].obj = Obj(p) /\ calls[q][i].out = "ok")
            => calls[q][i].op \notin RelWrites \cup {"Create", "Delete"}

\* p is in a later pass of its update whose calls all succeeded, and has
\* returned from it
ConvergedPass(p) ==
    /\ Kind(p) = "GroupUpdate"
    /\ \E i \in 1 .. Len(calls[p]) : calls[p][i].op = "Pass"
    /\ pc[p] = "done"
    /\ result[p] = Ok
    /\ \A i \in 1 .. Len(ThisPass(p)) : ThisPass(p)[i].out = "ok"

\* C17: a group update that failed and is applied again with the same
\* configuration, with every call of the new pass succeeding and no other
\* operation changing the group, leaves the members and the owners it
\* manages equal to the configured sets.
C17_Convergence ==
    \A p \in Procs :
        (ConvergedPass(p) /\ Undisturbed(p))
        =>
        /\ req[p].chMembers => remote[Obj(p)].members = req[p].members
        /\ req[p].chOwners => remote[Obj(p)].owners = req[p].owners

C17_Witness ==
    \E p \in Procs :
        /\ ConvergedPass(p) /\ Undisturbed(p)
        /\ req[p].chMembers /\ req[p].members = {"B", "C", "D"}
        /\ calls[p][3] = RelCall("RemoveMembers", "g1", "ok", "members", {"A"})
        /\ calls[p][4] = RelCall("AddMembers", "g1", "error", "members", {"D"})
        /\ calls[p][5] = PassMark("g1")
        /\ \E i \in 6 .. Len(calls[p]) :
              /\ calls[p][i] = RelCall("ListMembers", "g1", "ok", "members", {"B", "C"})
              /\ calls[p][i + 1] = RelCall("AddMembers", "g1", "ok", "members", {"D"})
        /\ remote["g1"].members = {"B", "C", "D"}

\* the application handlers that validate the values of the configuration
AppWriters == {"AppCreate", "AppUpdate"}

\* C18: an application create or update whose configured app roles and
\* scopes hold a non-empty value twice is rejected with the validation
\* error before it makes any remote call.
C18_DuplicateValuesRejectedFirst ==
    \A p \in Procs :
        (/\ Kind(p) \in AppWriters
         /\ ~applicationValidateRolesScopes(req[p].roles, req[p].scopes))
        =>
        /\ calls[p] = <<>>
        /\ pc[p] = "done" => result[p] = Diag("ValidationError", "", "")

\* r has written to the application a (its creation included)
ChangedApp(r, a) ==
    \E i \in 1 .. Len(calls[r]) :
        /\ calls[r][i].obj = a
        /\ calls[r][i].out = "ok"
        /\ calls[r][i].op \in {"Create", "Update"}

\* C19: after an application create or update, or an app role or scope
\* create or update, has succeeded on an application that no other operation
\* wrote to, no non-empty value occurs twice among the app roles and scopes
\* of that application.
C19_ValuesUniqueAfterSuccess ==
    \A p \in Procs :
        (/\ Kind(p) \in AppWriters \cup {"RoleCreate", "RoleUpdate", "ScopeCreate", "ScopeUpdate"}
         /\ pc[p] = "done"
         /\ result[p] = Ok
         /\ ChangedApp(p, Obj(p))
         /\ \A r \in Procs \ {p} : ~ChangedApp(r, Obj(p)))
        => applicationValidateRolesScopes(remote[Obj(p)].roles, remote[Obj(p)].scopes)

\* no two entries of the collection share an ID
UniqueIds(coll) ==
    \A i \in 1 .. Len(coll), j \in 1 .. Len(coll) : coll[i].id = coll[j].id => i = j

\* C20: starting from collections of unique IDs, whatever creates, updates
\* and deletes of app roles, scopes and certificates run on an application,
\* no collection written to the directory, and none the directory holds, has
\* two entries of one ID.
C20_IdsStayUnique ==
    /\ \A a \in Apps :
          /\ UniqueIds(remote[a].roles)
          /\ UniqueIds(remote[a].scopes)
          /\ UniqueIds(remote[a].keys)
    /\ \A p \in Procs :
          \A i \in 1 .. Len(calls[p]) :
              (calls[p][i].op = "Update" /\ calls[p][i].coll # "")
              => UniqueIds(calls[p][i].entries)

C20_Witness ==
    \E p \in Procs, q \in Procs :
        /\ Kind(p) = "RoleCreate" /\ Kind(q) = "RoleDelete"
        /\ Obj(p) = "a1" /\ Obj(q) = "a1"
        /\ Sub(p) = "y" /\ Sub(q) = "x"
        /\ pc[p] = "done" /\ result[p] = Ok /\ Wrote(p)
        /\ pc[q] = "done" /\ result[q] = Ok /\ Wrote(q)
        /\ \E i \in 1 .. Len(calls[p]) :
              /\ calls[p][i].op = "Update"
              /\ Ids(calls[p][i].entries) = {"x", "y"}
        /\ Ids(remote["a1"].roles) = {"y"}
        /\ Len(remote["a1"].roles) = 1

\* the locks p holds
Held(p) == {a \in Apps : Holder(p, a) = p}

\* C21: a sub-resource create, update or delete that has returned, with
\* success or with any error, holds no named lock.
C21_ReturnedHoldsNoLock ==
    \A p \in Procs :
        (Kind(p) \in Writers /\ pc[p] = "done") => Held(p) = {}

\* an operation returned an error raised under the lock, and the next
\* operation on that application holds the lock now
C21_Witness ==
    \E p \in Procs, q \in Procs :
        /\ p # q
        /\ Kind(p) \in Writers /\ Kind(q) \in Writers
        /\ Obj(p) = Obj(q)
        /\ pc[p] = "done"
        /\ result[p].kind \in {"ParentNotFound", "RetrieveError", "AlreadyExists",
                               "EntryNotFound", "UpdateError"}
        /\ calls[p] # <<>>
        /\ Holder(q, Obj(q)) = q

\* p has called LockByName and the mutex is held by another operation
Waiting(p) ==
    /\ Kind(p) \in Writers
    /\ pc[p] = "start"
    /\ Holder(p, Obj(p)) \notin {NoProc, p}

\* C22: no operation holds more than one named lock, and under fair
\* scheduling every operation that waits for a lock acquires it and every
\* operation completes.
C22_NoNestingNoDeadlock ==
    /\ [](\A p \in Procs : Cardinality(Held(p)) <= 1)
    /\ \A p \in Procs : Waiting(p) ~> (Held(p) # {})
    /\ \A p \in Procs : <>(pc[p] = "done")

C22_Witness ==
    \E p \in Procs, q \in Procs :
        /\ Waiting(p)
        /\ Holder(p, Obj(p)) = q
        /\ Kind(q) \in Writers
        /\ Fetched(q)

\* the remote calls of p, by name
OpsOf(p) == [i \in 1 .. Len(calls[p]) |-> calls[p][i].op]

\* s is an initial part of t
IsPrefix(s, t) == Len(s) <= Len(t) /\ \A i \in 1 .. Len(s) : s[i] = t[i]

\* the remote calls a sub-resource handler makes when none fails: a create
\* or update fetches, writes and fetches again in its Read; the delete of an
\* app role or scope fetches and writes twice; that of a certificate once
CallsOfHandler(kind) ==
    IF kind \in CreateUpdateOps THEN <<"Get", "Update", "Get">>
    ELSE IF kind \in {"RoleDelete", "ScopeDelete"} THEN <<"Get", "Update", "Update">>
    ELSE <<"Get", "Update">>

\* a sub-resource handler holds the lock of its application from its
\* LockByName to its return, its Read included, and makes the calls of its
\* kind; no other operation holds a lock
LockHeldToReturn ==
    \A p \in Procs :
        /\ Kind(p) \notin Writers => Held(p) = {}
        /\ Kind(p) \in Writers =>
              /\ InCriticalSection(p) <=> Held(p) = {Obj(p)}
              /\ IsPrefix(OpsOf(p), CallsOfHandler(Kind(p)))

\* every remote call of a sub-resource handler is made under its lock
CallsUnderLock ==
    \A p \in Procs :
        (Kind(p) \in Writers /\ calls'[p] # calls[p]) => Holder(p, Obj(p)) = p

\* while p holds a lock, the call it makes is its first, a Get, or its
\* second, an Update
OneReadOneWrite ==
    \A p \in Procs :
        (Held(p) # {} /\ calls'[p] # calls[p])
        =>
        \/ calls[p] = <<>> /\ OpsOf(p)' = <<"Get">>
        \/ OpsOf(p)' = <<"Get", "Update">>

\* C23 (as stated): under its lock an operation makes one Get and then one
\* Update and no other call, the re-fetch after a create or update comes
\* after the release, and no read takes the lock.
C23_LockSpansOneReadOneWrite ==
    /\ [](\A p \in Procs : Kind(p) \in ReadOps => Held(p) = {})
    /\ [][OneReadOneWrite]_vars

\* C23 (amended): a sub-resource handler makes all its remote calls under
\* its lock: the Get, the Update (two for the delete of an app role or
\* scope) and, after a successful create or update, the Get of its Read,
\* which runs before the deferred unlock; read operations take no lock.
C23_LockSpansHandler ==
    /\ []LockHeldToReturn
    /\ [][CallsUnderLock]_vars

C23_Witness ==
    \E p \in Procs :
        /\ Kind(p) \in CreateUpdateOps
        /\ pc[p] = "read"
        /\ OpsOf(p) = <<"Get", "Update">>
        /\ calls[p][2].out = "ok"
        /\ rid[p] = ResourceId(Obj(p), Sub(p))
        /\ Holder(p, Obj(p)) = p

\* the collection of the application that a sub-resource handler mutates
CollOf(kind) ==
    IF kind \in RoleOps THEN "roles" ELSE IF kind \in ScopeOps THEN "scopes" ELSE "keys"

\* p and q are creates of two entries of one collection of one application,
\* run by two provider processes; both fetched the same collection and both
\* wrote back, and no other operation wrote to the application
Raced(p, q) ==
    /\ p # q
    /\ Provider(p) # Provider(q)
    /\ Kind(p) \in {"RoleCreate", "ScopeCreate", "CertCreate"}
    /\ Kind(q) = Kind(p)
    /\ Obj(p) = Obj(q)
    /\ Sub(p) # Sub(q)
    /\ Fetched(p) /\ Fetched(q)
    /\ FetchedColl(p) = FetchedColl(q)
    /\ Wrote(p) /\ Wrote(q)
    /\ \A r \in Procs \ {p, q} : ~ChangedApp(r, Obj(p))

\* C24: two creates on one application run by two provider processes can
\* fetch the same collection; then the application holds the fetched
\* entries and the entry of one create only, the entry of the other is
\* lost, and neither create returns an error (none but that of a remote
\* call that failed).
C24_CrossProcessLastWriteWins ==
    \A p \in Procs, q \in Procs :
        Raced(p, q)
        =>
        LET coll == remote[Obj(p)][CollOf(Kind(p))] IN
        /\ Ids(coll) \in {Ids(FetchedColl(p)) \cup {Sub(p)}, Ids(FetchedColl(p)) \cup {Sub(q)}}
        /\ ~(Sub(p) \in Ids(coll) /\ Sub(q) \in Ids(coll))
        /\ \A r \in {p, q} :
              (pc[r] = "done" /\ calls[r][Len(calls[r])].out # "error") => result[r] = Ok

\* both creates have returned without error; the entry of p is gone, and p
\* still has its resource ID
C24_Witness ==
    \E p \in Procs, q \in Procs :
        /\ Raced(p, q)
        /\ Kind(p) = "RoleCreate"
        /\ pc[p] = "done" /\ result[p] = Ok
        /\ pc[q] = "done" /\ result[q] = Ok
        /\ rid[p] = ResourceId(Obj(p), Sub(p))
        /\ rid[q] = ResourceId(Obj(q), Sub(q))
        /\ Sub(p) \notin Ids(remote[Obj(p)].roles)
        /\ Sub(q) \in Ids(remote[Obj(p)].roles)

\* the entries of a collection
Range(coll) == {coll[i] : i \in 1 .. Len(coll)}

\* the collection w, written by p after it fetched f, differs from f in
\* entries of the ID of p only
OthersKept(p, f, w) ==
    /\ \A e \in Range(f) : e.id # Sub(p) => e \in Range(w)
    /\ \A e \in Range(w) : e.id # Sub(p) => e \in Range(f)
    /\ Len(SelectSeq(w, LAMBDA e : e.id # Sub(p))) = Len(SelectSeq(f, LAMBDA e : e.id # Sub(p)))

\* C25: a write-back of a sub-resource create, update or delete carries the
\* fetched collection with the entry of its ID added, replaced or removed,
\* and every other fetched entry unchanged, those without an ID included.
C25_OnlyTargetedEntryChanges ==
    \A p \in Procs :
        (Kind(p) \in Writers /\ Fetched(p))
        =>
        \A i \in 2 .. Len(calls[p]) :
            calls[p][i].op = "Update"
            =>
            LET f == FetchedColl(p)
                w == calls[p][i].entries
            IN
            /\ OthersKept(p, f, w)
            /\ Kind(p) \in {"RoleCreate", "ScopeCreate", "CertCreate"} =>
                  /\ Sub(p) \notin Ids(f)
                  /\ Len(w) = Len(f) + 1
                  /\ Sub(p) \in Ids(w)
            /\ Kind(p) \in {"RoleUpdate", "ScopeUpdate"} =>
                  /\ Len(w) = Len(f)
                  /\ Sub(p) \in Ids(w)
            /\ (Kind(p) \in {"RoleDelete", "ScopeDelete"} /\ i = 2) =>
                  /\ Len(w) = Len(f)
                  /\ \A e \in Range(w) : e.id = Sub(p) => ~e.enabled
            /\ (Kind(p) = "CertDelete" \/ i = 3) => Sub(p) \notin Ids(w)

\* the collections of an application
Collections == {"roles", "scopes", "keys"}

\* a step in which a sub-resource handler makes a remote call changes no
\* collection but the one of its kind, of its application
OnlyOwnCollection ==
    \A p \in Procs :
        (Kind(p) \in Writers /\ calls'[p] # calls[p])
        =>
        \A o \in Objects, c \in Collections :
            (o # Obj(p) \/ c # CollOf(Kind(p)))
            => /\ remote'[o][c] = remote[o][c]
               /\ remote'[o].exists = remote[o].exists

\* every client.Update of a sub-resource handler carries the ID of its
\* application and the collection of its kind
UpdatesCarryOwnCollection ==
    \A p \in Procs :
        Kind(p) \in Writers
        =>
        \A i \in 1 .. Len(calls[p]) :
            calls[p][i].op = "Update"
            => /\ calls[p][i].obj = Obj(p)
               /\ calls[p][i].coll = CollOf(Kind(p))

\* C26: the write-back of an app role, scope or certificate mutation carries
\* the application's ID and the one collection mutated, and leaves the other
\* two collections of the application as they are, in every interleaving.
C26_OtherCollectionsUntouched ==
    /\ []UpdatesCarryOwnCollection
    /\ [][OnlyOwnCollection]_vars

\* an app role and a certificate were created on the application that holds
\* a scope; the scope is as it was
C26_Witness ==
    \E p \in Procs, q \in Procs :
        /\ Kind(p) = "RoleCreate" /\ Kind(q) = "CertCreate"
        /\ Obj(p) = "a1" /\ Obj(q) = "a1"
        /\ Sub(p) = "y" /\ Sub(q) = "y"
        /\ pc[p] = "done" /\ result[p] = Ok /\ Wrote(p)
        /\ pc[q] = "done" /\ result[q] = Ok /\ Wrote(q)
        /\ Ids(remote["a1"].roles) = {"x", "y"}
        /\ Ids(remote["a1"].keys) = {NilId, "x", "y"}
        /\ remote["a1"].scopes = <<Entry("x", TRUE)>>

\* the creates of sub-resources
Creates == {"RoleCreate", "ScopeCreate", "CertCreate"}

\* C27: a sub-resource create has a resource ID only once its write-back
\* has succeeded, and then the ID made of the application's and the entry's;
\* a create whose fetch, duplicate check or write-back failed has none.
C27_IdSetAfterWriteBack ==
    \A p \in Procs :
        Kind(p) \in Creates
        =>
        /\ rid[p] \in {NoId, ResourceId(Obj(p), Sub(p))}
        /\ ~Wrote(p) => rid[p] = NoId
        /\ (Wrote(p) /\ pc[p] = "read") => rid[p] = ResourceId(Obj(p), Sub(p))
        /\ (pc[p] = "done" /\ result[p].kind \in {"ParentNotFound", "RetrieveError",
                                                  "AlreadyExists", "UpdateError"}
            /\ ~Wrote(p)) => rid[p] = NoId

\* one create failed in its write-back and has no ID, one succeeded and has
C27_Witness ==
    \E p \in Procs, q \in Procs :
        /\ Kind(p) \in Creates /\ Kind(q) \in Creates
        /\ pc[p] = "done" /\ result[p].kind = "UpdateError"
        /\ Len(calls[p]) = 2 /\ calls[p][2].op = "Update"
        /\ rid[p] = NoId
        /\ pc[q] = "done" /\ result[q] = Ok /\ Wrote(q)
        /\ rid[q] = ResourceId(Obj(q), Sub(q))

\* C28: the delete of an app role or scope whose application was fetched
\* and holds no entry of the ID makes no write-back, clears the resource ID
\* and returns no error.
C28_DeleteOfMissingEntryIsNoOp ==
    \A p \in Procs :
        (/\ Kind(p) \in {"RoleDelete", "ScopeDelete"}
         /\ Fetched(p)
         /\ Sub(p) \notin Ids(FetchedColl(p)))
        =>
        /\ Len(calls[p]) = 1
        /\ pc[p] = "done"
        /\ result[p] = Ok
        /\ rid[p] = NoId
        /\ Held(p) = {}

C28_Witness ==
    \E p \in Procs, q \in Procs :
        /\ Kind(p) = "RoleDelete" /\ Kind(q) = "ScopeDelete"
        /\ Fetched(p) /\ Sub(p) \notin Ids(FetchedColl(p))
        /\ Fetched(q) /\ Sub(q) \notin Ids(FetchedColl(q))
        /\ rid[p] = NoId /\ result[p] = Ok
        /\ rid[q] = NoId /\ result[q] = Ok
        /\ remote[Obj(p)].exists

\* the place of a call in the body of groupResourceUpdate, 0 for a call
\* that is not of the body
UpdateStep(c) ==
    IF c.op = "Update" THEN 1
    ELSE IF c.op = "ListMembers" /\ c.coll # "" THEN 2
    ELSE IF c.op = "RemoveMembers" THEN 3
    ELSE IF c.op = "AddMembers" THEN 4
    ELSE IF c.op = "ListOwners" /\ c.coll # "" THEN 5
    ELSE IF c.op = "AddOwners" THEN 6
    ELSE IF c.op = "RemoveOwners" THEN 7
    ELSE 0

\* the calls at i and j of the log of p are of one pass of its update
SamePass(p, i, j) == \A k \in i .. j : calls[p][k].op # "Pass"

\* within one pass the calls of a group update are made in the order of the
\* handler's body
UpdateCallsInOrder ==
    \A p \in Procs :
        Kind(p) = "GroupUpdate"
        =>
        \A i \in 1 .. Len(calls[p]), j \in 1 .. Len(calls[p]) :
            (/\ i < j
             /\ SamePass(p, i, j)
             /\ UpdateStep(calls[p][i]) > 0
             /\ UpdateStep(calls[p][j]) > 0)
            => UpdateStep(calls[p][i]) < UpdateStep(calls[p][j])

\* a membership or ownership call is made in a pass whose client.Update
\* succeeded, and a failed client.Update is the last call of its pass
RelationshipsAfterUpdate ==
    \A p \in Procs :
        Kind(p) = "GroupUpdate"
        =>
        \A j \in 1 .. Len(calls[p]) :
            /\ UpdateStep(calls[p][j]) > 1
               => \E i \in 1 .. j - 1 :
                     /\ SamePass(p, i, j)
                     /\ calls[p][i].op = "Update"
                     /\ calls[p][i].out = "ok"
            /\ (calls[p][j].op = "Update" /\ calls[p][j].out = "error")
               => /\ j = Len(calls[p]) \/ calls[p][j + 1].op = "Pass"
                  /\ j = Len(calls[p]) =>
                        pc[p] = "done" /\ result[p].kind = "UpdateError"

\* between its two owner calls the update has every configured owner on
\* the group
OwnersAddedBeforeRemoval ==
    \A p \in Procs :
        (Kind(p) = "GroupUpdate" /\ pc[p] = "removeowners")
        => /\ req[p].owners \subseteq remote[Obj(p)].owners
           /\ work[p].forRemoval \cap req[p].owners = {}

\* the step in which the owners are removed leaves an owner when one is
\* configured
RemovalLeavesOwner ==
    \A p \in Procs :
        (/\ Kind(p) = "GroupUpdate"
         /\ pc[p] = "removeowners"
         /\ pc'[p] # "removeowners"
         /\ req[p].owners # {})
        => remote'[Obj(p)].owners # {}

\* C29: a group update calls Update first, then removes members before it
\* adds members, then adds owners before it removes owners; it makes no
\* membership or ownership call when the Update failed; and with a
\* configured owner the group has an owner between and after the two owner
\* calls.
C29_UpdateCallOrder ==
    /\ [](UpdateCallsInOrder /\ RelationshipsAfterUpdate /\ OwnersAddedBeforeRemoval)
    /\ [][RemovalLeavesOwner]_vars

\* an update that replaced the only owner: all five writes were made, and
\* between the two owner calls the group had the old and the new owners
C29_Witness ==
    \E p \in Procs :
        /\ Kind(p) = "GroupUpdate"
        /\ req[p].owners = {"B", "C", "D"}
        /\ pc[p] = "removeowners"
        /\ Len(calls[p]) = 6
        /\ calls[p][1].op = "Update"
        /\ calls[p][3] = RelCall("RemoveMembers", "g1", "ok", "members", {"A"})
        /\ calls[p][4] = RelCall("AddMembers", "g1", "ok", "members", {"D"})
        /\ calls[p][6] = RelCall("AddOwners", "g1", "ok", "owners", {"B", "C", "D"})
        /\ work[p].forRemoval = {"A"}
        /\ remote["g1"].owners = {"A", "B", "C", "D"}

\* the deletes of parents
ParentDeletes == {"AppDelete", "GroupDelete", "UserDelete"}

\* C30: the delete of an application, group or user fetches the object
\* first and calls Delete only when the fetch succeeded; when the fetch
\* answered 404 or failed, the delete has made no Delete call and has
\* returned an error, so the delete of an object already deleted fails.
C30_DeleteOnlyAfterFetch ==
    \A p \in Procs :
        Kind(p) \in ParentDeletes
        =>
        /\ \A j \in 1 .. Len(calls[p]) :
              calls[p][j].op = "Delete"
              => /\ j = 2
                 /\ calls[p][1] = GetCall(Obj(p), "ok", "", <<>>)
                 /\ calls[p][j].obj = Obj(p)
        /\ (Len(calls[p]) >= 1 /\ calls[p][1].out # "ok")
           => /\ Len(calls[p]) = 1
              /\ calls[p][1].op = "Get"
              /\ pc[p] = "done"
              /\ result[p] = Diag(IF calls[p][1].out = "notfound"
                                  THEN "NotFound" ELSE "RetrieveError", Obj(p), "")
        /\ (pc[p] = "done" /\ result[p] = Ok)
           => /\ Len(calls[p]) = 2
              /\ calls[p][2] = DeleteCall(Obj(p), "ok")

\* a group was deleted, and a second delete of it found it gone and
\* returned an error without calling Delete
C30_Witness ==
    \E p \in Procs, q \in Procs :
        /\ Kind(p) = "GroupDelete" /\ Kind(q) = "GroupDelete"
        /\ Obj(p) = "g1" /\ Obj(q) = "g1"
        /\ pc[p] = "done" /\ result[p] = Ok
        /\ calls[p] = <<GetCall("g1", "ok", "", <<>>), DeleteCall("g1", "ok")>>
        /\ ~remote["g1"].exists
        /\ pc[q] = "done" /\ result[q] = Diag("NotFound", "g1", "")
        /\ calls[q] = <<GetCall("g1", "notfound", "", <<>>)>>

====
